---- MODULE Spec2Model ----
(***************************************************************************)
(* Verification model of the eval-harness core of orban/intent-layer:      *)
(*   - PreValidationCache.get_or_compute      (lib/task_runner.py)         *)
(*   - IndexCache (manifest, save, restore)   (lib/index_cache.py)         *)
(*   - TaskRunner.run / warm_cache            (lib/task_runner.py)         *)
(* Each component has its own specification over the shared variable list; *)
(* the variables of the other components stay at their initial values.     *)
(***************************************************************************)
EXTENDS Integers, Sequences, FiniteSets, TLC

(***************************************************************************)
(* Bounds of the model                                                     *)
(***************************************************************************)
NumCallers == 3

Callers == 1..NumCallers

\* threads of one run that use the cache directory (warm-up and trial workers)
NumThreads == 2

Threads == 1..NumThreads

\* save calls and process kills in a run of the sequential cache model
MaxSaves == 2

MaxKills == 1

\* worker threads that execute TaskRunner.run or TaskRunner.warm_cache
NumRunners == 2

Runners == 1..NumRunners

\* task ids used as PreValidationCache keys (run passes task.id)
Keys == {"task-a", "task-b"}

(***************************************************************************)
(* Values                                                                  *)
(***************************************************************************)
\* Python None, as returned by _pre_validate for non-test tasks
None == "None"

\* marks a key that is not in a dict
Absent == "<absent>"

\* what _pre_validate can return: None or the captured test transcript
FnValues == {None, "FAILED test_x", "FAILED test_y"}

\* an exception object: its class and its constructor arguments
PreValidationErrorT == "PreValidationError"

SkillGenerationErrorT == "SkillGenerationError"

FileNotFoundErrorT == "FileNotFoundError"

NoExc == [type |-> "<none>", args |-> <<>>]

\* what _pre_validate can raise: PreValidationError(msg), or an OSError
\* subclass (errno, strerror) from the sandbox call
FnExceptions ==
    { [type |-> PreValidationErrorT, args |-> <<"Test already passes">>],
      [type |-> FileNotFoundErrorT, args |-> <<"2", "No such file or directory">>] }

\* str(e): one argument prints as itself, OSError(errno, strerror) prints as
\* "[Errno n] strerror"
Str(e) ==
    IF Len(e.args) = 1 THEN e.args[1]
    ELSE IF Len(e.args) = 2 THEN "[Errno " \o e.args[1] \o "] " \o e.args[2]
    ELSE ""

\* type(orig)(str(orig))
ReRaise(orig) == [type |-> orig.type, args |-> <<Str(orig)>>]

NoOutcome == [kind |-> "none", val |-> Absent, exc |-> NoExc]

Returned(v) == [kind |-> "return", val |-> v, exc |-> NoExc]

Raised(e) == [kind |-> "raise", val |-> Absent, exc |-> e]

(***************************************************************************)
(* Strings that are split or sliced by the code are sequences of one-      *)
(* character strings, so that slicing and splitting are computed.          *)
(***************************************************************************)
Hyphen == "-"

Slash == "/"

RECURSIVE Concat(_)
\* the concatenation of a sequence of strings
Concat(ss) == IF ss = <<>> THEN <<>> ELSE Head(ss) \o Concat(Tail(ss))

\* the positions of character ch in s, in increasing order
Positions(s, ch) == {i \in 1..Len(s) : s[i] = ch}

SetMax(S) == CHOOSE x \in S : \A y \in S : y <= x

\* s.rsplit("-", 2): split at the last two hyphens, or at the only one
\* the name has, or not at all
RSplit2(s) ==
    LET hs == Positions(s, Hyphen) IN
    IF hs = {} THEN <<s>>
    ELSE LET h2 == SetMax(hs)
             rest == hs \ {h2} IN
         IF rest = {}
         THEN <<SubSeq(s, 1, h2 - 1), SubSeq(s, h2 + 1, Len(s))>>
         ELSE LET h1 == SetMax(rest) IN
              <<SubSeq(s, 1, h1 - 1), SubSeq(s, h1 + 1, h2 - 1),
                SubSeq(s, h2 + 1, Len(s))>>

\* s.strip("/")
RECURSIVE StripSlashes(_)
StripSlashes(s) ==
    IF s = <<>> THEN s
    ELSE IF Head(s) = Slash THEN StripSlashes(Tail(s))
    ELSE IF s[Len(s)] = Slash THEN StripSlashes(SubSeq(s, 1, Len(s) - 1))
    ELSE s

\* s.split("/")[-1]
LastSegment(s) ==
    LET ps == Positions(s, Slash) IN
    IF ps = {} THEN s ELSE SubSeq(s, SetMax(ps) + 1, Len(s))

DotGit == <<".", "g", "i", "t">>

DotGitLen == 4

EndsWithDotGit(s) ==
    Len(s) >= DotGitLen /\ SubSeq(s, Len(s) - DotGitLen + 1, Len(s)) = DotGit

\* IndexCache._extract_repo_name, applied to the path of the parsed URL
ExtractRepoName(path) ==
    LET name == LastSegment(StripSlashes(path)) IN
    IF EndsWithDotGit(name) THEN SubSeq(name, 1, Len(name) - DotGitLen) ELSE name

\* the number of commit characters kept in a cache key
CommitShortLen == 8

\* commit[:8]
CommitShort(commit) ==
    SubSeq(commit, 1, IF Len(commit) < CommitShortLen THEN Len(commit)
                      ELSE CommitShortLen)

\* IndexCache.get_cache_key
GetCacheKey(path, commit, condition) ==
    IF condition # <<>>
    THEN ExtractRepoName(path) \o <<Hyphen>> \o CommitShort(commit)
             \o <<Hyphen>> \o condition
    ELSE ExtractRepoName(path) \o <<Hyphen>> \o CommitShort(commit)

\* IndexCache.get_repo_cache_key
GetRepoCacheKey(path, condition) ==
    ExtractRepoName(path) \o <<Hyphen>> \o condition

\* the key save() stores an entry under
SaveKey(path, commit, condition, repo_level) ==
    IF repo_level THEN GetRepoCacheKey(path, condition)
    ELSE GetCacheKey(path, commit, condition)

(***************************************************************************)
(* Repositories, commits and conditions used as inputs                     *)
(***************************************************************************)
FLAT_LLM == <<"flat_llm">>

INTENT_LAYER == <<"intent_layer">>

\* the default condition="" of lookup and save
NoCondition == <<>>

\* the commit warm_cache passes for a repo-level entry
Latest == <<"l", "a", "t", "e", "s", "t">>

\* paths of repository URLs: /u/r, /v/r.git and /u/r-x
RepoPaths ==
    { <<"/", "u", "/", "r">>,
      <<"/", "v", "/", "r", ".", "g", "i", "t">>,
      <<"/", "u", "/", "r", "-", "x">> }

\* two SHAs that agree on their first eight characters, and a short one
Commits ==
    { <<"a", "b", "c", "d", "e", "f", "0", "1", "2">>,
      <<"a", "b", "c", "d", "e", "f", "0", "1", "3">>,
      <<"x">> }

\* the arguments (repo, commit, condition, repo_level) of the save calls
SaveArgs ==
    { [repo |-> <<"/", "u", "/", "r">>,
       commit |-> <<"a", "b", "c", "d", "e", "f", "0", "1", "2">>,
       condition |-> FLAT_LLM, repo_level |-> FALSE],
      [repo |-> <<"/", "u", "/", "r">>, commit |-> Latest,
       condition |-> INTENT_LAYER, repo_level |-> TRUE],
      [repo |-> <<"/", "u", "/", "r", "-", "x">>, commit |-> Latest,
       condition |-> FLAT_LLM, repo_level |-> TRUE],
      [repo |-> <<"/", "v", "/", "r", ".", "g", "i", "t">>,
       commit |-> <<"x">>, condition |-> NoCondition, repo_level |-> FALSE] }

\* the save calls made by the concurrent threads of one run: the
\* commit-level entry of a trial and the repo-level entry of a warm-up
ThreadSaveArgs == {a \in SaveArgs : a.repo = <<"/", "u", "/", "r">>}

ArgsKey(a) == SaveKey(a.repo, a.commit, a.condition, a.repo_level)

\* the directory names save() can create
CacheKeys == {ArgsKey(a) : a \in SaveArgs}

(***************************************************************************)
(* State                                                                   *)
(***************************************************************************)
VARIABLES
    \* PreValidationCache
    pvc_results,      \* self._results: key -> value (Absent when not a key)
    pvc_errors,       \* self._errors: key -> exception (NoExc when not a key)
    pvc_in_progress,  \* keys of self._in_progress (each holds an Event)
    pvc_event_set,    \* keys whose Event has been set
    goc,              \* per caller: position inside get_or_compute
    fn_calls,         \* history: how often fn() was invoked per key
    fn_finished,      \* history: keys whose fn() returned or raised
    \* the cache directory as the threads of one run see it
    fs_names,         \* "manifest" and "tmp": the inode each name refers to, 0 if none
    fs_inodes,        \* inode -> the state of the file's content
    fs_dirs,          \* names of the entry directories that hold a .md file
    th,               \* per thread: position in IndexCache code, its manifest
    \* one IndexCache at a time on a cache directory, with file contents
    sq_manifest,      \* cache-manifest.json: [exists, entries]
    sq_tmp,           \* cache-manifest.tmp: [state, entries]
    sq_dirs,          \* entry directory name -> (relative path -> content)
    sq_mem,           \* self.manifest.entries of the live IndexCache
    sq_pc,            \* position of the process in IndexCache code
    sq_op,            \* the call in progress: its arguments and what is left
    sq_target,        \* the workspace restore() wrote into
    sq_last,          \* history: the last completed call
    sq_saves,         \* history: number of save calls started
    sq_kills,         \* history: number of times the process was killed
    \* TaskRunner.run / warm_cache on worker threads that share one IndexCache
    rn,               \* per runner: position in run / warm_cache and its locals
    ic_entries,       \* self.index_cache.manifest.entries
    ic_dirs,          \* entry directory name -> relative paths of its files
    ic_tmp,           \* whether the name cache-manifest.tmp exists
    pv,               \* the last call of _pre_validate: task, environment, outcome
    drv,              \* cli.run: position, work queue, futures, results, report
    wsp,              \* the workspaces of the trials of one run
    ss,               \* one call of _strip_context_files and the file system around it
    lk,               \* the cache entries and the last context step that looked them up
    rp,               \* the compile_results call: the work queue, its result list and what it returned
    rs,               \* the resumed run: the prior results, the filtered queue and the merge
    stc,              \* the last call of a function of lib/stats.py: its arguments and result
    ky,               \* the entries of one manifest with the arguments of their saves, and the last lookup
    gd                \* the git workspace of one trial and its diff stats

pvcVars == <<pvc_results, pvc_errors, pvc_in_progress, pvc_event_set, goc,
             fn_calls, fn_finished>>

icVars == <<fs_names, fs_inodes, fs_dirs, th>>

sqVars == <<sq_manifest, sq_tmp, sq_dirs, sq_mem, sq_pc, sq_op, sq_target,
            sq_last, sq_saves, sq_kills>>

runVars == <<rn, ic_entries, ic_dirs, ic_tmp>>

pvVars == <<pv>>

drvVars == <<drv>>

wsVars == <<wsp>>

ssVars == <<ss>>

lkVars == <<lk>>

rpVars == <<rp>>

rsVars == <<rs>>

stVars == <<stc>>

kyVars == <<ky>>

gdVars == <<gd>>

vars == <<pvcVars, icVars, sqVars, runVars, pvVars, drvVars, wsVars, ssVars, lkVars, rpVars, rsVars, stVars, kyVars, gdVars>>

\* what the actions of one component leave alone
nonPvcVars == <<icVars, sqVars, runVars, pvVars, drvVars, wsVars, ssVars, lkVars, rpVars, rsVars, stVars, kyVars, gdVars>>

nonIcVars == <<pvcVars, sqVars, runVars, pvVars, drvVars, wsVars, ssVars, lkVars, rpVars, rsVars, stVars, kyVars, gdVars>>

nonSqVars == <<pvcVars, icVars, runVars, pvVars, drvVars, wsVars, ssVars, lkVars, rpVars, rsVars, stVars, kyVars, gdVars>>

nonRunVars == <<pvcVars, icVars, sqVars, pvVars, drvVars, wsVars, ssVars, lkVars, rpVars, rsVars, stVars, kyVars, gdVars>>

nonPvVars == <<pvcVars, icVars, sqVars, runVars, drvVars, wsVars, ssVars, lkVars, rpVars, rsVars, stVars, kyVars, gdVars>>

nonDrvVars == <<pvcVars, icVars, sqVars, runVars, pvVars, wsVars, ssVars, lkVars, rpVars, rsVars, stVars, kyVars, gdVars>>

nonWsVars == <<pvcVars, icVars, sqVars, runVars, pvVars, drvVars, ssVars, lkVars, rpVars, rsVars, stVars, kyVars, gdVars>>

nonSsVars == <<pvcVars, icVars, sqVars, runVars, pvVars, drvVars, wsVars, lkVars, rpVars, rsVars, stVars, kyVars, gdVars>>

nonLkVars == <<pvcVars, icVars, sqVars, runVars, pvVars, drvVars, wsVars, ssVars, rpVars, rsVars, stVars, kyVars, gdVars>>

nonRpVars == <<pvcVars, icVars, sqVars, runVars, pvVars, drvVars, wsVars, ssVars, lkVars, rsVars, stVars, kyVars, gdVars>>

nonRsVars == <<pvcVars, icVars, sqVars, runVars, pvVars, drvVars, wsVars, ssVars, lkVars, rpVars, stVars, kyVars, gdVars>>

nonStVars == <<pvcVars, icVars, sqVars, runVars, pvVars, drvVars, wsVars, ssVars, lkVars, rpVars, rsVars, kyVars, gdVars>>

nonKyVars == <<pvcVars, icVars, sqVars, runVars, pvVars, drvVars, wsVars, ssVars, lkVars, rpVars, rsVars, stVars, gdVars>>

nonGdVars == <<pvcVars, icVars, sqVars, runVars, pvVars, drvVars, wsVars, ssVars, lkVars, rpVars, rsVars, stVars, kyVars>>

(***************************************************************************)
(* PreValidationCache                                                      *)
(***************************************************************************)
IdleCaller ==
    [pc |-> "idle", key |-> Absent, is_first |-> FALSE, path |-> "none",
     pending |-> NoOutcome, out |-> NoOutcome]

PvcInit ==
    /\ pvc_results = [k \in Keys |-> Absent]
    /\ pvc_errors = [k \in Keys |-> NoExc]
    /\ pvc_in_progress = {}
    /\ pvc_event_set = {}
    /\ goc = [c \in Callers |-> IdleCaller]
    /\ fn_calls = [k \in Keys |-> 0]
    /\ fn_finished = {}

\* a mutation of RegisterEvent: the new Event is not stored in _in_progress
RegisterEvent_Forgotten(k) == pvc_in_progress

\* self._in_progress[key] = event
RegisterEvent(k) == pvc_in_progress \cup {k}

\* the first locked block of get_or_compute
GocEnter(c, k) ==
    /\ goc[c].pc = "idle"
    /\ UNCHANGED nonPvcVars
    /\ IF pvc_results[k] # Absent
       THEN /\ goc' = [goc EXCEPT ![c] = [@ EXCEPT !.pc = "done", !.key = k,
                           !.path = "cached", !.out = Returned(pvc_results[k])]]
            /\ UNCHANGED pvc_in_progress
       ELSE IF pvc_errors[k] # NoExc
       THEN /\ goc' = [goc EXCEPT ![c] = [@ EXCEPT !.pc = "done", !.key = k,
                           !.path = "cached",
                           !.out = Raised(ReRaise(pvc_errors[k]))]]
            /\ UNCHANGED pvc_in_progress
       ELSE IF k \in pvc_in_progress
       THEN /\ goc' = [goc EXCEPT ![c] = [@ EXCEPT !.pc = "wait", !.key = k,
                           !.path = "waited", !.is_first = FALSE]]
            /\ UNCHANGED pvc_in_progress
       ELSE /\ goc' = [goc EXCEPT ![c] = [@ EXCEPT !.pc = "compute", !.key = k,
                           !.path = "first", !.is_first = TRUE]]
            /\ pvc_in_progress' = RegisterEvent(k)
    /\ UNCHANGED <<pvc_results, pvc_errors, pvc_event_set, fn_calls, fn_finished>>

\* event.wait(timeout=...) returns because the event was set
GocWaitSignalled(c) ==
    /\ goc[c].pc = "wait"
    /\ UNCHANGED nonPvcVars
    /\ goc[c].key \in pvc_event_set
    /\ goc' = [goc EXCEPT ![c].pc = "reread"]
    /\ UNCHANGED <<pvc_results, pvc_errors, pvc_in_progress, pvc_event_set,
                   fn_calls, fn_finished>>

\* event.wait(timeout=...) returns because the timeout elapsed; the return
\* value of wait() is not looked at
GocWaitTimeout(c) ==
    /\ goc[c].pc = "wait"
    /\ UNCHANGED nonPvcVars
    /\ goc[c].key \notin pvc_event_set
    /\ goc' = [goc EXCEPT ![c].pc = "reread", ![c].path = "timed_out"]
    /\ UNCHANGED <<pvc_results, pvc_errors, pvc_in_progress, pvc_event_set,
                   fn_calls, fn_finished>>

\* self._results.get(key): None when the key is missing
ResultsGet(k) == IF pvc_results[k] = Absent THEN None ELSE pvc_results[k]

\* the locked block after the wait
GocReread(c) ==
    /\ goc[c].pc = "reread"
    /\ UNCHANGED nonPvcVars
    /\ LET k == goc[c].key IN
       goc' = [goc EXCEPT ![c].pc = "done",
                          ![c].out = IF pvc_errors[k] # NoExc
                                     THEN Raised(ReRaise(pvc_errors[k]))
                                     ELSE Returned(ResultsGet(k))]
    /\ UNCHANGED <<pvc_results, pvc_errors, pvc_in_progress, pvc_event_set,
                   fn_calls, fn_finished>>

\* the first caller invokes fn()
GocCallFn(c) ==
    /\ goc[c].pc = "compute"
    /\ UNCHANGED nonPvcVars
    /\ goc' = [goc EXCEPT ![c].pc = "in_fn"]
    /\ fn_calls' = [fn_calls EXCEPT ![goc[c].key] = @ + 1]
    /\ UNCHANGED <<pvc_results, pvc_errors, pvc_in_progress, pvc_event_set,
                   fn_finished>>

\* fn() returns v
GocFnReturns(c, v) ==
    /\ goc[c].pc = "in_fn"
    /\ UNCHANGED nonPvcVars
    /\ goc' = [goc EXCEPT ![c].pc = "store_result", ![c].pending = Returned(v)]
    /\ fn_finished' = fn_finished \cup {goc[c].key}
    /\ UNCHANGED <<pvc_results, pvc_errors, pvc_in_progress, pvc_event_set,
                   fn_calls>>

\* fn() raises e
GocFnRaises(c, e) ==
    /\ goc[c].pc = "in_fn"
    /\ UNCHANGED nonPvcVars
    /\ goc' = [goc EXCEPT ![c].pc = "store_error", ![c].pending = Raised(e)]
    /\ fn_finished' = fn_finished \cup {goc[c].key}
    /\ UNCHANGED <<pvc_results, pvc_errors, pvc_in_progress, pvc_event_set,
                   fn_calls>>

\* with self._lock: self._results[key] = result
GocStoreResult(c) ==
    /\ goc[c].pc = "store_result"
    /\ UNCHANGED nonPvcVars
    /\ pvc_results' = [pvc_results EXCEPT ![goc[c].key] = goc[c].pending.val]
    /\ goc' = [goc EXCEPT ![c].pc = "finally"]
    /\ UNCHANGED <<pvc_errors, pvc_in_progress, pvc_event_set, fn_calls,
                   fn_finished>>

\* with self._lock: self._errors[key] = e
GocStoreError(c) ==
    /\ goc[c].pc = "store_error"
    /\ UNCHANGED nonPvcVars
    /\ pvc_errors' = [pvc_errors EXCEPT ![goc[c].key] = goc[c].pending.exc]
    /\ goc' = [goc EXCEPT ![c].pc = "finally"]
    /\ UNCHANGED <<pvc_results, pvc_in_progress, pvc_event_set, fn_calls,
                   fn_finished>>

\* finally: event.set(); then the return or the re-raise takes effect
GocFinally(c) ==
    /\ goc[c].pc = "finally"
    /\ UNCHANGED nonPvcVars
    /\ pvc_event_set' = pvc_event_set \cup {goc[c].key}
    /\ goc' = [goc EXCEPT ![c].pc = "done", ![c].out = goc[c].pending]
    /\ UNCHANGED <<pvc_results, pvc_errors, pvc_in_progress, fn_calls,
                   fn_finished>>

PvcNext ==
    \/ \E c \in Callers, k \in Keys : GocEnter(c, k)
    \/ \E c \in Callers : GocWaitSignalled(c)
    \/ \E c \in Callers : GocWaitTimeout(c)
    \/ \E c \in Callers : GocReread(c)
    \/ \E c \in Callers : GocCallFn(c)
    \/ \E c \in Callers, v \in FnValues : GocFnReturns(c, v)
    \/ \E c \in Callers, e \in FnExceptions : GocFnRaises(c, e)
    \/ \E c \in Callers : GocStoreResult(c)
    \/ \E c \in Callers : GocStoreError(c)
    \/ \E c \in Callers : GocFinally(c)

(***************************************************************************)
(* IndexCache on a cache directory shared by the threads of a run.         *)
(* Every TaskRunner constructs its own IndexCache (task_runner.py:164), so *)
(* every thread has its own in-memory manifest; the manifest file and its  *)
(* temporary file are shared.  Entries are abstracted to their keys here;  *)
(* the sequential specification below keeps their contents.                *)
(***************************************************************************)
\* inode numbers; 0 stands for "no such file"
Inodes == 1..(NumThreads + 2)

NoFile == 0

\* content of a file: "empty" after open(.., "w"), "partial" while json.dump
\* is writing, "full" when one writer wrote a whole document, "garbled" when
\* writers interleaved; owner is the thread whose open() truncated it last
EmptyFile(t) == [state |-> "empty", data |-> {}, owner |-> t]

FreeInode == [state |-> "free", data |-> {}, owner |-> 0]

NewThread == [pc |-> "new", fd |-> NoFile, data |-> {}, mem |-> {},
              next |-> "none"]

\* the state after the driver's first IndexCache(cache_dir) on an empty
\* directory: an empty manifest has been written
IcStart ==
    /\ fs_names = [n \in {"manifest", "tmp"} |-> IF n = "manifest" THEN 1 ELSE NoFile]
    /\ fs_inodes = [i \in Inodes |-> IF i = 1
                                      THEN [state |-> "full", data |-> {}, owner |-> 0]
                                      ELSE FreeInode]
    /\ fs_dirs = {}
    /\ th = [t \in Threads |-> NewThread]

\* inodes referred to by a name or by an open file
UsedInodes ==
    {fs_names[n] : n \in {"manifest", "tmp"}} \cup {th[t].fd : t \in Threads}

FreshInode == CHOOSE i \in Inodes : i \notin UsedInodes

\* the orphan repair of _load_manifest, on keys: every entry directory that
\* holds a .md file and is not in the manifest is added
RepairedKeys(entries) == entries \cup fs_dirs

\* _load_manifest up to the repair: json.load of the manifest file if there
\* is one; a file that is not a whole JSON document raises JSONDecodeError
LoadManifest(t) ==
    /\ th[t].pc = "new"
    /\ UNCHANGED nonIcVars
    /\ LET ino == fs_names["manifest"] IN
       IF ino = NoFile
       THEN th' = [th EXCEPT ![t].pc = "sm_open", ![t].next = "ready",
                             ![t].mem = RepairedKeys({})]
       ELSE IF fs_inodes[ino].state = "full"
       THEN th' = [th EXCEPT ![t].pc = "sm_open", ![t].next = "ready",
                             ![t].mem = RepairedKeys(fs_inodes[ino].data)]
       ELSE th' = [th EXCEPT ![t].pc = "failed"]
    /\ UNCHANGED <<fs_names, fs_inodes, fs_dirs>>

\* _save_manifest: data = {...}; open(tmp_path, "w") creates the temporary
\* file or truncates the one that is there
SmOpen(t) ==
    /\ th[t].pc = "sm_open"
    /\ UNCHANGED nonIcVars
    /\ LET ino == IF fs_names["tmp"] = NoFile THEN FreshInode ELSE fs_names["tmp"] IN
       /\ fs_names' = [fs_names EXCEPT !["tmp"] = ino]
       /\ fs_inodes' = [fs_inodes EXCEPT ![ino] = EmptyFile(t)]
       /\ th' = [th EXCEPT ![t].pc = "sm_write", ![t].fd = ino,
                           ![t].data = th[t].mem]
    /\ UNCHANGED fs_dirs

\* json.dump(data, f): the first part of the document reaches the file
SmWrite(t) ==
    /\ th[t].pc = "sm_write"
    /\ UNCHANGED nonIcVars
    /\ LET f == fs_inodes[th[t].fd] IN
       fs_inodes' = [fs_inodes EXCEPT ![th[t].fd].state =
                        IF f.owner = t /\ f.state = "empty" THEN "partial"
                        ELSE "garbled"]
    /\ th' = [th EXCEPT ![t].pc = "sm_close"]
    /\ UNCHANGED <<fs_names, fs_dirs>>

\* the rest of the document is written and the file is closed
SmClose(t) ==
    /\ th[t].pc = "sm_close"
    /\ UNCHANGED nonIcVars
    /\ LET f == fs_inodes[th[t].fd] IN
       fs_inodes' = [fs_inodes EXCEPT ![th[t].fd] =
                        IF f.owner = t /\ f.state = "partial"
                        THEN [state |-> "full", data |-> th[t].data, owner |-> 0]
                        ELSE [state |-> "garbled", data |-> {}, owner |-> 0]]
    /\ th' = [th EXCEPT ![t].pc = "sm_rename", ![t].fd = NoFile, ![t].data = {}]
    /\ UNCHANGED <<fs_names, fs_dirs>>

\* tmp_path.rename(self.manifest_path): FileNotFoundError when another
\* thread has renamed the temporary file away
SmRename(t) ==
    /\ th[t].pc = "sm_rename"
    /\ UNCHANGED nonIcVars
    /\ IF fs_names["tmp"] = NoFile
       THEN /\ th' = [th EXCEPT ![t].pc = "failed", ![t].next = "none"]
            /\ UNCHANGED <<fs_names, fs_inodes>>
       ELSE /\ fs_names' = [fs_names EXCEPT !["manifest"] = fs_names["tmp"],
                                            !["tmp"] = NoFile]
            /\ fs_inodes' = [fs_inodes EXCEPT ![fs_names["manifest"]] =
                                IF fs_names["manifest"] \in {th[u].fd : u \in Threads}
                                THEN @ ELSE FreeInode]
            /\ th' = [th EXCEPT ![t].pc = th[t].next, ![t].next = "none"]
    /\ UNCHANGED fs_dirs

\* save(): the entry directory is made and the files copied, the entry is
\* put into this IndexCache's manifest; _save_manifest follows
Save(t, a) ==
    /\ th[t].pc = "ready"
    /\ UNCHANGED nonIcVars
    /\ fs_dirs' = fs_dirs \cup {ArgsKey(a)}
    /\ th' = [th EXCEPT ![t].pc = "sm_open", ![t].next = "saved",
                        ![t].mem = th[t].mem \cup {ArgsKey(a)}]
    /\ UNCHANGED <<fs_names, fs_inodes>>

\* the worker's trial is over (normally or by the exception); the worker
\* takes the next item and constructs a new TaskRunner
NextItem(t) ==
    /\ th[t].pc \in {"ready", "saved", "failed"}
    /\ UNCHANGED nonIcVars
    /\ th' = [th EXCEPT ![t] = NewThread]
    /\ UNCHANGED <<fs_names, fs_inodes, fs_dirs>>

\* the process is killed (all threads stop, open files are closed as they
\* are) and a later process starts on the same directory
Kill ==
    /\ \E t \in Threads : th[t].pc # "new"
    /\ UNCHANGED nonIcVars
    /\ th' = [t \in Threads |-> NewThread]
    /\ fs_inodes' = [i \in Inodes |->
                        IF i \in {fs_names["manifest"], fs_names["tmp"]}
                        THEN fs_inodes[i]
                        ELSE FreeInode]
    /\ UNCHANGED <<fs_names, fs_dirs>>

IcNext ==
    \/ \E t \in Threads : LoadManifest(t)
    \/ \E t \in Threads : SmOpen(t)
    \/ \E t \in Threads : SmWrite(t)
    \/ \E t \in Threads : SmClose(t)
    \/ \E t \in Threads : SmRename(t)
    \/ \E t \in Threads, a \in ThreadSaveArgs : Save(t, a)
    \/ \E t \in Threads : NextItem(t)
    \/ Kill

(***************************************************************************)
(* IndexCache used by one thread at a time, with the contents of entries   *)
(* and files: construction with orphan repair, save, lookup, restore, and  *)
(* the process being killed between any two steps.                         *)
(***************************************************************************)
\* relative paths of context files as _find_agents_files returns them,
\* each a sequence of path segments
Paths == {<<"CLAUDE.md">>, <<"sub", "AGENTS.md">>}

\* sorted(...) order of the paths
PathOrder == <<(<<"CLAUDE.md">>), (<<"sub", "AGENTS.md">>)>>

Contents == {"v1", "v2"}

EmptyMap == [x \in {} |-> 0]

MapPut(m, k, v) == [x \in DOMAIN m \cup {k} |-> IF x = k THEN v ELSE m[x]]

\* the generated files of a workspace: relative path -> bytes
FileSets ==
    { EmptyMap,
      [x \in {<<"CLAUDE.md">>} |-> "v1"],
      [x \in {<<"sub", "AGENTS.md">>} |-> "v2"],
      [x \in Paths |-> IF x = <<"CLAUDE.md">> THEN "v2" ELSE "v1"] }

\* the first path of S in sorted order
FirstPath(S) ==
    PathOrder[CHOOSE i \in 1..Len(PathOrder) :
                 /\ PathOrder[i] \in S
                 /\ \A j \in 1..(i - 1) : PathOrder[j] \notin S]

NoEntry == [repo |-> <<>>, commit |-> <<>>, workspace_path |-> <<>>,
            agents_files |-> {}, present |-> FALSE]

CacheEntry(repo, commit, dir, files) ==
    [repo |-> repo, commit |-> commit, workspace_path |-> dir,
     agents_files |-> files, present |-> TRUE]

\* "https://github.com/unknown/", the repository recorded by the repair
UnknownRepo == <<"/", "u", "n", "k", "n", "o", "w", "n", "/">>

\* a mutation of OrphanEntry: only the three-part per-commit names are
\* recognised, two-part repo-level names are skipped
OrphanEntry_CommitLevelOnly(name, md_files) ==
    LET parts == RSplit2(name) IN
    IF md_files = {} THEN NoEntry
    ELSE IF Len(parts) = 3
    THEN CacheEntry(UnknownRepo \o parts[1], parts[2], name, md_files)
    ELSE NoEntry

\* the entry _load_manifest reconstructs for an orphan directory, NoEntry
\* when the loop continues without adding one
OrphanEntry(name, md_files) ==
    LET parts == RSplit2(name) IN
    IF md_files = {} THEN NoEntry
    ELSE IF Len(parts) = 3
    THEN CacheEntry(UnknownRepo \o parts[1], parts[2], name, md_files)
    ELSE IF Len(parts) = 2
    THEN CacheEntry(UnknownRepo \o parts[1], Latest, name, md_files)
    ELSE NoEntry

\* child.rglob("*.md"): the files of an entry directory
MdFiles(name) == DOMAIN sq_dirs[name]

\* _load_manifest: the entries read from the manifest file (none when it
\* does not exist) plus the repaired orphans
LoadedEntries ==
    LET read == IF sq_manifest.exists THEN sq_manifest.entries ELSE EmptyMap
        orphans == {d \in DOMAIN sq_dirs :
                       /\ d \notin DOMAIN read
                       /\ OrphanEntry(d, MdFiles(d)).present}
    IN [k \in DOMAIN read \cup orphans |->
           IF k \in DOMAIN read THEN read[k] ELSE OrphanEntry(k, MdFiles(k))]

\* self.manifest.entries.get(cache_key)
EntriesGet(entries, key) == IF key \in DOMAIN entries THEN entries[key] ELSE NoEntry

\* IndexCache.lookup
Lookup(repo, commit, condition) ==
    EntriesGet(sq_mem, GetCacheKey(repo, commit, condition))

\* IndexCache.lookup_repo
LookupRepo(repo, condition) ==
    EntriesGet(sq_mem, GetRepoCacheKey(repo, condition))

\* a mutation of DstPath: the file is copied to its base name
DstPath_Flattened(p) == <<p[Len(p)]>>

\* dst = <directory> / agents_file
DstPath(p) == p

\* shutil.copy2(src, dst) for one listed file, skipped when src is missing
CopyOne(src, dst, p) ==
    IF p \in DOMAIN src THEN MapPut(dst, DstPath(p), src[p]) ELSE dst

RECURSIVE CopyAll(_, _, _)
\* the copy loop of restore() over the listed files
CopyAll(src, dst, files) ==
    IF files = {} THEN dst
    ELSE LET p == FirstPath(files) IN
         CopyAll(src, CopyOne(src, dst, p), files \ {p})

NoOp == [kind |-> "none", args |-> NoEntry, files |-> EmptyMap, todo |-> {}]

SqStart ==
    /\ sq_manifest = [exists |-> FALSE, entries |-> EmptyMap]
    /\ sq_tmp = [state |-> "missing", entries |-> EmptyMap]
    /\ sq_dirs = EmptyMap
    /\ sq_mem = EmptyMap
    /\ sq_pc = "new"
    /\ sq_op = NoOp
    /\ sq_target = EmptyMap
    /\ sq_last = NoOp
    /\ sq_saves = 0
    /\ sq_kills = 0

\* IndexCache(cache_dir): _load_manifest up to "self.manifest = manifest"
SqConstruct ==
    /\ sq_pc = "new"
    /\ UNCHANGED nonSqVars
    /\ sq_mem' = LoadedEntries
    /\ sq_pc' = "sm_open"
    /\ sq_op' = [NoOp EXCEPT !.kind = "construct"]
    /\ UNCHANGED <<sq_manifest, sq_tmp, sq_dirs, sq_target, sq_last, sq_saves,
                   sq_kills>>

\* save(): the cache key, cache_entry_dir.mkdir(parents=True, exist_ok=True)
SqSaveBegin(a, files) ==
    /\ sq_pc = "ready"
    /\ sq_saves < MaxSaves
    /\ UNCHANGED nonSqVars
    /\ sq_saves' = sq_saves + 1
    /\ sq_dirs' = IF ArgsKey(a) \in DOMAIN sq_dirs THEN sq_dirs
                  ELSE MapPut(sq_dirs, ArgsKey(a), EmptyMap)
    /\ sq_op' = [kind |-> "save", args |-> a, files |-> files,
                 todo |-> DOMAIN files]
    /\ sq_pc' = "copy"
    /\ UNCHANGED <<sq_manifest, sq_tmp, sq_mem, sq_target, sq_last, sq_kills>>

\* save(): one iteration of the copy loop
SqSaveCopy ==
    /\ sq_pc = "copy"
    /\ sq_op.todo # {}
    /\ UNCHANGED nonSqVars
    /\ LET p == FirstPath(sq_op.todo)
           key == ArgsKey(sq_op.args) IN
       /\ sq_dirs' = [sq_dirs EXCEPT ![key] = CopyOne(sq_op.files, @, p)]
       /\ sq_op' = [sq_op EXCEPT !.todo = @ \ {p}]
    /\ UNCHANGED <<sq_manifest, sq_tmp, sq_mem, sq_pc, sq_target, sq_last,
                   sq_saves, sq_kills>>

\* save(): self.manifest.entries[cache_key] = entry
SqSaveEntry ==
    /\ sq_pc = "copy"
    /\ sq_op.todo = {}
    /\ UNCHANGED nonSqVars
    /\ LET a == sq_op.args IN
       sq_mem' = MapPut(sq_mem, ArgsKey(a),
                        CacheEntry(a.repo, a.commit, ArgsKey(a), DOMAIN sq_op.files))
    /\ sq_pc' = "sm_open"
    /\ UNCHANGED <<sq_manifest, sq_tmp, sq_dirs, sq_op, sq_target, sq_last,
                   sq_saves, sq_kills>>

\* _save_manifest: open(tmp_path, "w")
SqSmOpen ==
    /\ sq_pc = "sm_open"
    /\ UNCHANGED nonSqVars
    /\ sq_tmp' = [state |-> "empty", entries |-> EmptyMap]
    /\ sq_pc' = "sm_write"
    /\ UNCHANGED <<sq_manifest, sq_dirs, sq_mem, sq_op, sq_target, sq_last,
                   sq_saves, sq_kills>>

\* _save_manifest: json.dump and the end of the with block
SqSmWrite ==
    /\ sq_pc = "sm_write"
    /\ UNCHANGED nonSqVars
    /\ sq_tmp' = [state |-> "full", entries |-> sq_mem]
    /\ sq_pc' = "sm_rename"
    /\ UNCHANGED <<sq_manifest, sq_dirs, sq_mem, sq_op, sq_target, sq_last,
                   sq_saves, sq_kills>>

\* _save_manifest: tmp_path.rename(self.manifest_path); the call that
\* wrote the manifest (the constructor or save) returns
SqSmRename ==
    /\ sq_pc = "sm_rename"
    /\ UNCHANGED nonSqVars
    /\ sq_manifest' = [exists |-> TRUE, entries |-> sq_tmp.entries]
    /\ sq_tmp' = [state |-> "missing", entries |-> EmptyMap]
    /\ sq_pc' = "ready"
    /\ sq_last' = sq_op
    /\ sq_op' = NoOp
    /\ UNCHANGED <<sq_dirs, sq_mem, sq_target, sq_saves, sq_kills>>

\* the lookup the task runner pairs with a save: lookup_repo for a
\* repo-level entry, lookup otherwise
LookupFor(a) ==
    IF a.repo_level THEN LookupRepo(a.repo, a.condition)
    ELSE Lookup(a.repo, a.commit, a.condition)

\* restore(entry, target_workspace) on the entry a lookup returned; before
\* is what the target workspace holds already
SqRestore(a, before) ==
    /\ sq_pc = "ready"
    /\ LookupFor(a).present
    /\ UNCHANGED nonSqVars
    /\ LET entry == LookupFor(a) IN
       sq_target' = CopyAll(sq_dirs[entry.workspace_path], before,
                            entry.agents_files)
    /\ sq_last' = [kind |-> IF sq_last.kind = "save" /\ sq_last.args = a
                            THEN "restore_after_save" ELSE "restore",
                   args |-> a, files |-> sq_last.files, todo |-> {}]
    /\ UNCHANGED <<sq_manifest, sq_tmp, sq_dirs, sq_mem, sq_pc, sq_op,
                   sq_saves, sq_kills>>

\* the process dies between two steps; a later process starts on the same
\* cache directory
SqKill ==
    /\ sq_pc # "new"
    /\ sq_kills < MaxKills
    /\ UNCHANGED nonSqVars
    /\ sq_kills' = sq_kills + 1
    /\ sq_pc' = "new"
    /\ sq_mem' = EmptyMap
    /\ sq_op' = NoOp
    /\ sq_last' = [NoOp EXCEPT !.kind = IF sq_pc \in {"copy", "sm_open", "sm_write", "sm_rename"}
                                           /\ sq_op.kind = "save"
                                        THEN "killed_in_save" ELSE "killed"]
    /\ UNCHANGED <<sq_manifest, sq_tmp, sq_dirs, sq_target, sq_saves>>

SqNext ==
    \/ SqConstruct
    \/ \E a \in SaveArgs, files \in FileSets : SqSaveBegin(a, files)
    \/ SqSaveCopy
    \/ SqSaveEntry
    \/ SqSmOpen
    \/ SqSmWrite
    \/ SqSmRename
    \/ \E a \in SaveArgs, before \in FileSets : SqRestore(a, before)
    \/ SqKill

(***************************************************************************)
(* TaskRunner.run and TaskRunner.warm_cache on worker threads.  The        *)
(* runners share one IndexCache object, as the warm-up runners of          *)
(* cli.py do; the bytes of the manifest files are followed in SpecIC.      *)
(***************************************************************************)
NONE == <<"none">>

Conditions == {NONE, FLAT_LLM, INTENT_LAYER}

\* self.repo.url and task.pre_fix_commit of the trials
RunRepo == <<"/", "u", "/", "r">>

PreFixCommit == <<"a", "b", "c", "d", "e", "f", "0", "1", "2">>

ClaudeMd == <<"CLAUDE.md">>

AgentsMd == <<"AGENTS.md">>

\* what the generation agent can leave in the workspace when its process
\* ends or is killed
GenLeaves == { {}, {ClaudeMd}, {<<"sub", "AGENTS.md">>},
               {AgentsMd, <<"sub", "AGENTS.md">>} }

\* _generate_flat_context: the dual write of CLAUDE.md and AGENTS.md
DualWrite(ws) ==
    IF ClaudeMd \in ws /\ AgentsMd \notin ws THEN ws \cup {AgentsMd}
    ELSE IF AgentsMd \in ws /\ ClaudeMd \notin ws THEN ws \cup {ClaudeMd}
    ELSE ws

\* _find_agents_files: glob "CLAUDE.md" and "**/AGENTS.md"
FindAgentsFiles(ws) ==
    {p \in ws : p = ClaudeMd \/ p[Len(p)] = "AGENTS.md"}

\* subprocess.CalledProcessError of a git call, with its printed message
CalledProcessError ==
    [type |-> "CalledProcessError",
     args |-> <<"Command returned non-zero exit status 128.">>]

\* FileNotFoundError(errno, strerror) of tmp_path.rename
RenameError ==
    [type |-> FileNotFoundErrorT, args |-> <<"2", "No such file or directory">>]

\* FileNotFoundError(errno, strerror) of subprocess.run when the docker
\* binary cannot be started (the fast path of run_in_docker catches only
\* TimeoutExpired)
DockerStartError ==
    [type |-> FileNotFoundErrorT, args |-> <<"2", "No such file or directory">>]

\* SkillGenerationError("... generation produced no files ...")
NoFilesError ==
    [type |-> SkillGenerationErrorT, args |-> <<"generation produced no files">>]

\* how a step that calls git or the sandbox can end
StepOutcomes == {NoExc, CalledProcessError}

\* how the pre-validation step can end: with an output, or with what
\* _pre_validate raises
PreValidateOutcomes == {NoExc} \cup FnExceptions

\* the steps of the setup of a trial, in the order of the code
SetupSteps == <<"clone", "checkout", "strip">>

\* the steps of the setup that were started when the step numbered at is the
\* one that raises, all of them when none raises
SetupStarted(outcome, at) ==
    IF outcome = NoExc THEN SetupSteps ELSE SubSeq(SetupSteps, 1, at)

\* TaskResult: the fields the classification of a trial sets
TaskResult(success, error, is_timeout) ==
    [success |-> success, error |-> error, is_timeout |-> is_timeout]

\* error=None of a TaskResult
NoError == <<>>

\* error=f"[tag] {e}"
TaggedError(tag, msg) == <<tag, msg>>

\* a mutation of ExceptHandler: one handler for every exception
ExceptHandler_SingleClause(e) ==
    TaskResult(FALSE, TaggedError("[infrastructure]", Str(e)), FALSE)

\* the except clauses of run, in their order
ExceptHandler(e) ==
    IF e.type = PreValidationErrorT
    THEN TaskResult(FALSE, TaggedError("[pre-validation]", Str(e)), FALSE)
    ELSE IF e.type = SkillGenerationErrorT
    THEN TaskResult(FALSE, TaggedError("[skill-generation]", Str(e)), FALSE)
    ELSE TaskResult(FALSE, TaggedError("[infrastructure]", Str(e)), FALSE)

\* cli.run: the TaskResult built for an exception e that future.result()
\* raises
WorkerCrashResult(e) ==
    TaskResult(FALSE, TaggedError("[worker-crash]", Str(e)), FALSE)

\* a mutation of PostTestSuccess: every trial that ran its test succeeds
PostTestSuccess_Always(exit_code) == TRUE

\* success=test_result.exit_code == 0
PostTestSuccess(exit_code) == exit_code = 0

\* ClaudeResult of the fix agent: token counts, tool calls, timed_out
ClaudeResult(input_tokens, output_tokens, tool_calls, timed_out) ==
    [input_tokens |-> input_tokens, output_tokens |-> output_tokens,
     tool_calls |-> tool_calls, timed_out |-> timed_out, invoked |-> TRUE]

NoClaudeResult ==
    [input_tokens |-> 0, output_tokens |-> 0, tool_calls |-> 0,
     timed_out |-> FALSE, invoked |-> FALSE]

ClaudeResults ==
    { ClaudeResult(0, 0, 0, FALSE), ClaudeResult(0, 0, 0, TRUE),
      ClaudeResult(1, 0, 0, FALSE), ClaudeResult(0, 1, 0, FALSE),
      ClaudeResult(0, 0, 1, FALSE), ClaudeResult(1, 1, 1, FALSE),
      ClaudeResult(1, 1, 1, TRUE) }

\* a mutation of IsEmptyRun: the timed_out flag is not looked at
IsEmptyRun_IgnoringTimeout(res) ==
    res.tool_calls = 0 /\ res.input_tokens = 0 /\ res.output_tokens = 0

\* the empty-run test of run
IsEmptyRun(res) ==
    /\ res.tool_calls = 0
    /\ res.input_tokens = 0
    /\ res.output_tokens = 0
    /\ ~res.timed_out

\* SkillGenerationMetrics: cache_hit and files_created
Metrics(cache_hit, files_created) ==
    [cache_hit |-> cache_hit, files_created |-> files_created, set |-> TRUE]

NoMetrics == [cache_hit |-> FALSE, files_created |-> {}, set |-> FALSE]

NotSaved == [called |-> FALSE, files |-> {}]

IdleRunner ==
    [pc |-> "idle", kind |-> "none", cond |-> NONE, cache |-> FALSE,
     ws |-> {}, metrics |-> NoMetrics, gen |-> "none", saved |-> NotSaved,
     fix |-> NoClaudeResult, tested |-> FALSE, passed |-> FALSE,
     exc |-> NoExc, out |-> NoOutcome, steps |-> <<>>, preval |-> "none"]

RunStart ==
    /\ rn = [r \in Runners |-> IdleRunner]
    /\ ic_entries = EmptyMap
    /\ ic_dirs = EmptyMap
    /\ ic_tmp = FALSE

\* lookup_repo (repo_level) and lookup on the shared IndexCache
LookupIn(entries, repo, commit, condition, repo_level) ==
    EntriesGet(entries, SaveKey(repo, commit, condition, repo_level))

\* a mutation of FindCacheEntry: the per-commit entry is tried first
FindCacheEntry_CommitFirst(entries, repo, commit, condition) ==
    LET commit_entry == LookupIn(entries, repo, commit, condition, FALSE) IN
    IF commit_entry.present THEN commit_entry
    ELSE LookupIn(entries, repo, Latest, condition, TRUE)

\* cache_entry of the context step: lookup_repo, then lookup when it
\* returned None
FindCacheEntry(entries, repo, commit, condition) ==
    LET repo_entry == LookupIn(entries, repo, Latest, condition, TRUE) IN
    IF repo_entry.present THEN repo_entry
    ELSE LookupIn(entries, repo, commit, condition, FALSE)

\* commit and repo_level as run and warm_cache pass them to the context step
JobCommit(r) == IF rn[r].kind = "warm" THEN Latest ELSE PreFixCommit

JobRepoLevel(r) == rn[r].kind = "warm"

\* the exception e leaves the body of the job: run handles it in its except
\* clauses and returns a TaskResult, warm_cache removes its workspace in the
\* finally block and lets it propagate
Raise(r, e) ==
    IF rn[r].kind = "run"
    THEN [rn[r] EXCEPT !.pc = "done", !.exc = e,
                       !.out = Returned(ExceptHandler(e))]
    ELSE [rn[r] EXCEPT !.pc = "done", !.exc = e, !.ws = {},
                       !.out = Raised(e)]

\* run(): a TaskRunner built with use_cache = cache starts a trial;
\* _setup_workspace has returned
RunBegin(r, cond, cache) ==
    /\ rn[r].pc = "idle"
    /\ UNCHANGED nonRunVars
    /\ rn' = [rn EXCEPT ![r] = [IdleRunner EXCEPT !.pc = "setup", !.kind = "run",
                                                  !.cond = cond, !.cache = cache]]
    /\ UNCHANGED <<ic_entries, ic_dirs, ic_tmp>>

\* warm_cache(): nothing to do for condition none or for a repo-level entry
\* that is already cached, otherwise the warm-up workspace is chosen
WarmBegin(r, cond, cache) ==
    /\ rn[r].pc = "idle"
    /\ UNCHANGED nonRunVars
    /\ LET job == [IdleRunner EXCEPT !.kind = "warm", !.cond = cond,
                                     !.cache = cache] IN
       rn' = [rn EXCEPT ![r] =
                 IF cond = NONE
                 THEN [job EXCEPT !.pc = "done", !.out = Returned(None)]
                 ELSE IF cache /\ LookupIn(ic_entries, RunRepo, Latest, cond, TRUE).present
                 THEN [job EXCEPT !.pc = "done", !.out = Returned(None)]
                 ELSE [job EXCEPT !.pc = "setup"]]
    /\ UNCHANGED <<ic_entries, ic_dirs, ic_tmp>>

\* clone_repo, checkout_commit, _strip_context_files, _inject_test_from_fix:
\* the workspace holds no context file afterwards, or a git call raised
JobSetup(r, outcome, at) ==
    /\ rn[r].pc = "setup"
    /\ UNCHANGED nonRunVars
    /\ rn' = [rn EXCEPT ![r] =
                 IF outcome = NoExc
                 THEN [@ EXCEPT !.ws = {},
                                !.steps = SetupStarted(outcome, at),
                                !.pc = IF rn[r].kind = "run" THEN "pre_validate"
                                       ELSE "context"]
                 ELSE [Raise(r, outcome) EXCEPT
                          !.steps = SetupStarted(outcome, at)]]
    /\ UNCHANGED <<ic_entries, ic_dirs, ic_tmp>>

\* run(): pre-validation through the cache or directly.  finished is false
\* when get_or_compute returned from an expired wait while the first
\* caller's _pre_validate for the task was still running (GocWaitTimeout,
\* GocReread)
RunPreValidate(r, outcome, finished) ==
    /\ rn[r].pc = "pre_validate"
    /\ outcome # NoExc => finished
    /\ UNCHANGED nonRunVars
    /\ rn' = [rn EXCEPT ![r] =
                 IF outcome = NoExc
                 THEN [@ EXCEPT !.steps = Append(@, "pre_validate"),
                                !.preval = IF finished THEN "passed"
                                           ELSE "unfinished",
                                !.pc = IF rn[r].cond = NONE THEN "prepare"
                                       ELSE "context"]
                 ELSE [Raise(r, outcome) EXCEPT
                          !.steps = Append(@, "pre_validate"),
                          !.preval = "failed"]]
    /\ UNCHANGED <<ic_entries, ic_dirs, ic_tmp>>

\* _check_or_generate_index / _generate_flat_context: the cache check, with
\* restore on a hit
CtxLookup(r) ==
    /\ rn[r].pc = "context"
    /\ UNCHANGED nonRunVars
    /\ LET cache_entry == FindCacheEntry(ic_entries, RunRepo, JobCommit(r),
                                         rn[r].cond)
       IN rn' = [rn EXCEPT ![r] =
                    IF rn[r].cache /\ cache_entry.present
                    THEN [@ EXCEPT
                            !.ws = @ \cup (cache_entry.agents_files
                                            \cap ic_dirs[cache_entry.workspace_path]),
                            !.metrics = Metrics(TRUE, cache_entry.agents_files),
                            !.steps = Append(@, "context"),
                            !.pc = "ctx_check"]
                    ELSE [@ EXCEPT !.steps = Append(@, "context"),
                                   !.pc = "generate"]]
    /\ UNCHANGED <<ic_entries, ic_dirs, ic_tmp>>

\* the context step after a miss: run_claude ends (finished or killed at
\* its timeout) and has left the files leaves, the dual write of the flat
\* condition, _find_agents_files, and save() up to the manifest entry
CtxGenerate(r, timed_out, leaves) ==
    /\ rn[r].pc = "generate"
    /\ UNCHANGED nonRunVars
    /\ LET written == rn[r].ws \cup leaves
           ws == IF rn[r].cond = FLAT_LLM THEN DualWrite(written) ELSE written
           agents_files == FindAgentsFiles(ws)
           key == SaveKey(RunRepo, JobCommit(r), rn[r].cond, JobRepoLevel(r))
           dir == IF key \in DOMAIN ic_dirs THEN ic_dirs[key] ELSE {}
       IN /\ rn' = [rn EXCEPT ![r] =
                       [@ EXCEPT !.ws = ws,
                                 !.gen = IF timed_out THEN "timed_out" ELSE "finished",
                                 !.metrics = Metrics(FALSE, agents_files),
                                 !.saved = IF rn[r].cache
                                           THEN [called |-> TRUE, files |-> agents_files]
                                           ELSE NotSaved,
                                 !.pc = IF rn[r].cache THEN "sm_open" ELSE "ctx_check"]]
          /\ IF rn[r].cache
             THEN /\ ic_dirs' = MapPut(ic_dirs, key, dir \cup agents_files)
                  /\ ic_entries' = MapPut(ic_entries, key,
                                          CacheEntry(RunRepo, JobCommit(r), key,
                                                     agents_files))
             ELSE UNCHANGED <<ic_dirs, ic_entries>>
    /\ UNCHANGED ic_tmp

\* _save_manifest: open(tmp_path, "w"), json.dump, close
CtxSmOpen(r) ==
    /\ rn[r].pc = "sm_open"
    /\ UNCHANGED nonRunVars
    /\ ic_tmp' = TRUE
    /\ rn' = [rn EXCEPT ![r].pc = "sm_rename"]
    /\ UNCHANGED <<ic_entries, ic_dirs>>

\* _save_manifest: tmp_path.rename(self.manifest_path), FileNotFoundError
\* when the name is gone
CtxSmRename(r) ==
    /\ rn[r].pc = "sm_rename"
    /\ UNCHANGED nonRunVars
    /\ ic_tmp' = FALSE
    /\ rn' = [rn EXCEPT ![r] = IF ic_tmp THEN [@ EXCEPT !.pc = "ctx_check"]
                               ELSE Raise(r, RenameError)]
    /\ UNCHANGED <<ic_entries, ic_dirs>>

\* the zero-file check of run and warm_cache on the returned metrics;
\* warm_cache returns the metrics and removes its workspace
CtxCheck(r) ==
    /\ rn[r].pc = "ctx_check"
    /\ UNCHANGED nonRunVars
    /\ rn' = [rn EXCEPT ![r] =
                 IF ~rn[r].metrics.cache_hit /\ rn[r].metrics.files_created = {}
                 THEN Raise(r, NoFilesError)
                 ELSE IF rn[r].kind = "run" THEN [@ EXCEPT !.pc = "prepare"]
                 ELSE [@ EXCEPT !.pc = "done", !.ws = {},
                                !.out = Returned(rn[r].metrics)]]
    /\ UNCHANGED <<ic_entries, ic_dirs, ic_tmp>>

\* run(): create_baseline_commit and _build_prompt
RunPrepare(r, outcome) ==
    /\ rn[r].pc = "prepare"
    /\ UNCHANGED nonRunVars
    /\ rn' = [rn EXCEPT ![r] =
                 IF outcome = NoExc
                 THEN [@ EXCEPT !.steps = Append(@, "baseline"), !.pc = "claude"]
                 ELSE [Raise(r, outcome) EXCEPT !.steps = Append(@, "baseline")]]
    /\ UNCHANGED <<ic_entries, ic_dirs, ic_tmp>>

\* run(): the fix agent returns res; the empty-run and timeout returns
RunFixAgent(r, res) ==
    /\ rn[r].pc = "claude"
    /\ UNCHANGED nonRunVars
    /\ rn' = [rn EXCEPT ![r] =
                 IF IsEmptyRun(res)
                 THEN [@ EXCEPT !.fix = res, !.pc = "done",
                         !.steps = Append(@, "claude"),
                         !.out = Returned(TaskResult(FALSE,
                                     TaggedError("[empty-run]", "Claude produced no output"),
                                     FALSE))]
                 ELSE IF res.timed_out
                 THEN [@ EXCEPT !.fix = res, !.pc = "done",
                         !.steps = Append(@, "claude"),
                         !.out = Returned(TaskResult(FALSE,
                                     TaggedError("[timeout]", "Claude timed out"),
                                     TRUE))]
                 ELSE [@ EXCEPT !.fix = res, !.pc = "test",
                                !.steps = Append(@, "claude")]]
    /\ UNCHANGED <<ic_entries, ic_dirs, ic_tmp>>

\* run(): the post-fix test in the sandbox (which raises when the docker
\* process cannot be started), get_diff_stats, the result
RunPostTest(r, exit_code, outcome) ==
    /\ rn[r].pc = "test"
    /\ UNCHANGED nonRunVars
    /\ rn' = [rn EXCEPT ![r] =
                 IF outcome = NoExc
                 THEN [@ EXCEPT !.tested = TRUE, !.passed = (exit_code = 0),
                         !.pc = "done",
                         !.steps = @ \o <<"test", "diff">>,
                         !.out = Returned(TaskResult(PostTestSuccess(exit_code),
                                                     NoError, FALSE))]
                 ELSE [Raise(r, outcome) EXCEPT !.tested = TRUE,
                                                !.steps = Append(@, "test")]]
    /\ UNCHANGED <<ic_entries, ic_dirs, ic_tmp>>

RunNext ==
    \E r \in Runners :
        \/ \E cond \in Conditions, cache \in BOOLEAN : RunBegin(r, cond, cache)
        \/ \E cond \in Conditions, cache \in BOOLEAN : WarmBegin(r, cond, cache)
        \/ \E outcome \in StepOutcomes, at \in DOMAIN SetupSteps :
               JobSetup(r, outcome, at)
        \/ \E outcome \in PreValidateOutcomes, finished \in BOOLEAN :
               RunPreValidate(r, outcome, finished)
        \/ CtxLookup(r)
        \/ \E timed_out \in BOOLEAN, leaves \in GenLeaves :
               CtxGenerate(r, timed_out, leaves)
        \/ CtxSmOpen(r)
        \/ CtxSmRename(r)
        \/ CtxCheck(r)
        \/ \E outcome \in StepOutcomes : RunPrepare(r, outcome)
        \/ \E res \in ClaudeResults : RunFixAgent(r, res)
        \/ \E exit_code \in {0, 1}, outcome \in {NoExc, DockerStartError} :
               RunPostTest(r, exit_code, outcome)

(***************************************************************************)
(* TaskRunner._pre_validate as a function of the task and of what the      *)
(* sandbox does with the command                                           *)
(***************************************************************************)
PromptSources == {"failing_test", "commit_message"}

\* a task and its repository: prompt_source, whether test_file is set,
\* whether docker.setup lists commands
PvTasks == [prompt_source : PromptSources, test_file : BOOLEAN,
            has_setup : BOOLEAN]

\* what the environment does: whether the docker process starts, the exit
\* codes of the setup chain and of the command after it, whether the run
\* exceeds the timeout, whether context files are left in the workspace
PvEnvs == [docker_starts : BOOLEAN, setup_exit : {0, 1},
           command_exit : {0, 1}, times_out : BOOLEAN, residual : BOOLEAN]

DockerResult(exit_code, stdout, timed_out) ==
    [exit_code |-> exit_code, stdout |-> stdout, timed_out |-> timed_out]

\* PreValidationError(msg)
PreValidationErrorOf(msg) == [type |-> PreValidationErrorT, args |-> <<msg>>]

\* run_in_docker on its fast path with sh -c "<setup chain> && <command>":
\* the exit code is the one of the first command that fails; a timeout gives
\* exit code -1 and timed_out; a docker binary that cannot be started raises
\* out of subprocess.run
RunInDocker(has_setup, env) ==
    IF ~env.docker_starts THEN Raised(DockerStartError)
    ELSE IF env.times_out THEN Returned(DockerResult(-1, "", TRUE))
    ELSE IF has_setup /\ env.setup_exit # 0
    THEN Returned(DockerResult(env.setup_exit, "setup failed", FALSE))
    ELSE IF env.command_exit # 0
    THEN Returned(DockerResult(env.command_exit, "FAILED test_x", FALSE))
    ELSE Returned(DockerResult(0, "passed", FALSE))

\* _pre_validate, step 3: the residual context file check, then the return
ResidualCheck(env, test_output) ==
    IF env.residual
    THEN Raised(PreValidationErrorOf("Context files remain after stripping"))
    ELSE Returned(test_output)

\* _pre_validate
PreValidate(task, env) ==
    LET call == RunInDocker(task.has_setup, env)
        result == call.val
    IN IF call.kind = "raise" THEN call
       ELSE IF task.prompt_source # "failing_test" /\ ~task.test_file
       THEN IF result.timed_out
            THEN Raised(PreValidationErrorOf("Docker setup timed out"))
            ELSE IF result.exit_code # 0
            THEN Raised(PreValidationErrorOf("Docker setup failed"))
            ELSE ResidualCheck(env, None)
       ELSE IF task.prompt_source = "failing_test" /\ result.exit_code = 0
            THEN Raised(PreValidationErrorOf("Test already passes"))
            ELSE IF result.timed_out
            THEN Raised(PreValidationErrorOf("Test command timed out"))
            ELSE ResidualCheck(env, result.stdout)

PvStart ==
    pv = [called |-> FALSE,
          task |-> [prompt_source |-> "failing_test", test_file |-> FALSE,
                    has_setup |-> FALSE],
          env |-> [docker_starts |-> TRUE, setup_exit |-> 0, command_exit |-> 0,
                   times_out |-> FALSE, residual |-> FALSE],
          out |-> NoOutcome]

\* one call of _pre_validate
PreValidateCall(task, env) ==
    /\ UNCHANGED nonPvVars
    /\ pv' = [called |-> TRUE, task |-> task, env |-> env,
              out |-> PreValidate(task, env)]

PvNext == \E task \in PvTasks, env \in PvEnvs : PreValidateCall(task, env)

(***************************************************************************)
(* cli.run: the work queue, the warm-up pool, the trial pool with its      *)
(* as_completed loop, and the report.  All tasks belong to one repository. *)
(***************************************************************************)
\* --repetitions is drawn from 1..MaxRepetitions
MaxRepetitions == 2

\* --parallel: max_workers of the trial pool
Parallel == 2

\* runs with more than MaxQueue work items are not followed
MaxQueue == 4

\* all_tasks, in the order the task files list them
TaskOptions == { <<"task-a">>, <<"task-a", "task-b">> }

\* the conditions a run is started with (--condition, or all of them cut to
\* two)
ConditionOptions == { <<NONE>>, <<NONE, FLAT_LLM>>, <<FLAT_LLM, INTENT_LAYER>> }

\* work_queue: for (repo, task) in all_tasks, for cond in conditions, for rep
\* in range(repetitions)
WorkQueue(all_tasks, conditions, repetitions) ==
    [n \in 1..(Len(all_tasks) * Len(conditions) * repetitions) |->
        [task |-> all_tasks[((n - 1) \div (Len(conditions) * repetitions)) + 1],
         cond |-> conditions[(((n - 1) \div repetitions) % Len(conditions)) + 1],
         rep |-> (n - 1) % repetitions]]

\* warmup_items: one per (repo.url, cond.value) with cond other than none
WarmupItems(conditions) ==
    {conditions[i] : i \in DOMAIN conditions} \ {NONE}

\* the parameters of TaskRunner.__init__
TaskRunnerParams ==
    {"repo", "workspaces_dir", "progress_callback", "cache_dir", "use_cache",
     "reference_clone", "pre_val_cache"}

\* the arguments _warmup_one constructs its TaskRunner with
WarmupOneArgs ==
    {"repo", "workspaces_dir", "progress_callback", "cache_dir", "use_cache",
     "reference_clone"}

\* the arguments run_single constructs its TaskRunner with
RunSingleArgs ==
    {"repo", "workspaces_dir", "progress_callback", "cache_dir", "use_cache",
     "reference_clone", "pre_val_cache", "claude_timeout",
     "skip_pre_validation_for"}

\* TypeError of a call with a keyword argument the function does not have
UnexpectedKeywordError ==
    [type |-> "TypeError",
     args |-> <<"TaskRunner.__init__() got an unexpected keyword argument">>]

\* TaskRunner(...) called with the keyword arguments args: the exception it
\* raises, NoExc when the object is constructed
Construct(args) ==
    IF args \subseteq TaskRunnerParams THEN NoExc ELSE UnexpectedKeywordError

\* OSError of shutil.rmtree in _setup_workspace, which run calls before its
\* try block
RmtreeError ==
    [type |-> "OSError", args |-> <<"39", "Directory not empty">>]

\* what runner.run(task, condition) can do once the runner exists: return a
\* TaskResult (passed, failed, tagged) or raise out of _setup_workspace
RunOutcomes ==
    { Returned(TaskResult(TRUE, NoError, FALSE)),
      Returned(TaskResult(FALSE, NoError, FALSE)),
      Returned(ExceptHandler(CalledProcessError)),
      Raised(RmtreeError) }

\* run_single(item): the construction of the TaskRunner, then run
RunSingle(ran) ==
    IF Construct(RunSingleArgs) # NoExc THEN Raised(Construct(RunSingleArgs))
    ELSE ran

\* what _warmup_one can do: warm_cache returns (metrics or None) or raises
WarmupOutcomes == {Returned(None), Raised(NoFilesError)}

\* _warmup_one(item)
WarmupOne(warmed) ==
    IF Construct(WarmupOneArgs) # NoExc THEN Raised(Construct(WarmupOneArgs))
    ELSE warmed

\* a Future of a pool: pending, running, finished (result or exception
\* set), yielded (as_completed has handed it to the loop body)
Future(state, out) == [state |-> state, out |-> out]

PendingFuture == Future("pending", NoOutcome)

\* an element of results: task_id and condition with the classification
DrvResult(task_id, condition, tr) ==
    [task_id |-> task_id, condition |-> condition, success |-> tr.success,
     error |-> tr.error]

NoReport == [written |-> FALSE, results |-> <<>>]

\* drv.from is not program state: from[j] is the index of the future that
\* results[j] was appended for
DrvStart ==
    drv = [pc |-> "start", no_cache |-> FALSE, queue |-> <<>>,
           warm |-> <<>>, futures |-> <<>>, results |-> <<>>, from |-> <<>>,
           report |-> NoReport]

\* a mutation of SubmitAll: only the first work item is submitted
SubmitAll_FirstOnly(queue) == [i \in {1} |-> PendingFuture]

\* executor.submit(run_single, item) for every item of work_queue
SubmitAll(queue) == [i \in DOMAIN queue |-> PendingFuture]

\* run(): the options are parsed, the work queue is built, and either the
\* warm-up futures or (no cache, or nothing to warm) the trial futures are
\* submitted
DrvBegin(all_tasks, conditions, repetitions, no_cache) ==
    /\ drv.pc = "start"
    /\ UNCHANGED nonDrvVars
    /\ Len(all_tasks) * Len(conditions) * repetitions <= MaxQueue
    /\ LET queue == WorkQueue(all_tasks, conditions, repetitions)
           items == WarmupItems(conditions)
       IN drv' = IF ~no_cache /\ items # {}
                 THEN [drv EXCEPT !.pc = "warmup", !.no_cache = no_cache,
                                  !.queue = queue,
                                  !.warm = [c \in items |-> PendingFuture]]
                 ELSE [drv EXCEPT !.pc = "trials", !.no_cache = no_cache,
                                  !.queue = queue,
                                  !.futures = SubmitAll(queue)]

\* a thread of the warm-up pool (max_workers = len(warmup_items)) takes c
WarmupRun(c) ==
    /\ drv.pc = "warmup"
    /\ UNCHANGED nonDrvVars
    /\ c \in DOMAIN drv.warm
    /\ drv.warm[c].state = "pending"
    /\ drv' = [drv EXCEPT !.warm[c].state = "running"]

\* _warmup_one returns or raises
WarmupFinish(c, warmed) ==
    /\ drv.pc = "warmup"
    /\ UNCHANGED nonDrvVars
    /\ c \in DOMAIN drv.warm
    /\ drv.warm[c].state = "running"
    /\ drv' = [drv EXCEPT !.warm[c] = Future("finished", WarmupOne(warmed))]

\* the body of the warm-up as_completed loop: future.result(), the echo
WarmupCollect(c) ==
    /\ drv.pc = "warmup"
    /\ UNCHANGED nonDrvVars
    /\ c \in DOMAIN drv.warm
    /\ drv.warm[c].state = "finished"
    /\ drv' = [drv EXCEPT !.warm[c].state = "yielded"]

\* a mutation of WarmupDone: the trial pool is opened after the first
\* warm-up future
WarmupDone_AfterFirst ==
    \E c \in DOMAIN drv.warm : drv.warm[c].state = "yielded"

\* the warm-up loop and the with block are left when every future has been
\* yielded
WarmupDone ==
    \A c \in DOMAIN drv.warm : drv.warm[c].state = "yielded"

\* the end of the warm-up with block; the trial pool is created and the
\* work queue submitted
WarmupExit ==
    /\ drv.pc = "warmup"
    /\ UNCHANGED nonDrvVars
    /\ WarmupDone
    /\ drv' = [drv EXCEPT !.pc = "trials", !.futures = SubmitAll(drv.queue)]

Running(futures) == {i \in DOMAIN futures : futures[i].state = "running"}

\* a thread of the trial pool takes the oldest pending work item
TrialRun(i) ==
    /\ drv.pc = "trials"
    /\ UNCHANGED nonDrvVars
    /\ i \in DOMAIN drv.futures
    /\ drv.futures[i].state = "pending"
    /\ \A j \in 1..(i - 1) : drv.futures[j].state # "pending"
    /\ Cardinality(Running(drv.futures)) < Parallel
    /\ drv' = [drv EXCEPT !.futures[i].state = "running"]

\* run_single(item) returns or raises
TrialFinish(i, ran) ==
    /\ drv.pc = "trials"
    /\ UNCHANGED nonDrvVars
    /\ i \in DOMAIN drv.futures
    /\ drv.futures[i].state = "running"
    /\ drv' = [drv EXCEPT !.futures[i] = Future("finished", RunSingle(ran))]

\* a mutation of CollectResult: the crash result is built from the first
\* work item instead of futures[future]
CollectResult_FirstItem(queue, i, out) ==
    IF out.kind = "raise"
    THEN DrvResult(queue[1].task, queue[1].cond, WorkerCrashResult(out.exc))
    ELSE DrvResult(queue[i].task, queue[i].cond, out.val)

\* the result the loop body appends for future i: future.result(), or the
\* [worker-crash] TaskResult with the task and condition of futures[future]
CollectResult(queue, i, out) ==
    IF out.kind = "raise"
    THEN DrvResult(queue[i].task, queue[i].cond, WorkerCrashResult(out.exc))
    ELSE DrvResult(queue[i].task, queue[i].cond, out.val)

\* the body of the trial as_completed loop for a finished future
TrialCollect(i) ==
    /\ drv.pc = "trials"
    /\ UNCHANGED nonDrvVars
    /\ i \in DOMAIN drv.futures
    /\ drv.futures[i].state = "finished"
    /\ drv' = [drv EXCEPT
                 !.futures[i].state = "yielded",
                 !.results = Append(@, CollectResult(drv.queue, i,
                                                     drv.futures[i].out)),
                 !.from = Append(@, i)]

\* a mutation of TrialsDone: the loop is left after Parallel futures
TrialsDone_FirstBatch ==
    Cardinality({i \in DOMAIN drv.futures :
                    drv.futures[i].state = "yielded"}) >= Parallel

\* the trial loop is left when as_completed has yielded every future
TrialsDone ==
    \A i \in DOMAIN drv.futures : drv.futures[i].state = "yielded"

\* reporter.compile_results(results), write_json, write_markdown
DrvReport ==
    /\ drv.pc = "trials"
    /\ UNCHANGED nonDrvVars
    /\ TrialsDone
    /\ drv' = [drv EXCEPT !.pc = "done",
                          !.report = [written |-> TRUE, results |-> drv.results]]

DrvNext ==
    \/ \E all_tasks \in TaskOptions, conditions \in ConditionOptions,
          repetitions \in 1..MaxRepetitions, no_cache \in BOOLEAN :
           DrvBegin(all_tasks, conditions, repetitions, no_cache)
    \/ \E c \in Conditions : WarmupRun(c)
    \/ \E c \in Conditions, warmed \in WarmupOutcomes : WarmupFinish(c, warmed)
    \/ \E c \in Conditions : WarmupCollect(c)
    \/ WarmupExit
    \/ \E i \in 1..MaxQueue : TrialRun(i)
    \/ \E i \in 1..MaxQueue, ran \in RunOutcomes :
           TrialFinish(i, ran)
    \/ \E i \in 1..MaxQueue : TrialCollect(i)
    \/ DrvReport

(***************************************************************************)
(* TaskRunner._setup_workspace: the workspace directories of the trials of *)
(* one run, which share one workspaces_dir.                                *)
(***************************************************************************)
\* the modulus 0xFFFF of the task hash
HashModulus == 65535

\* values hash(task.id) can take for the strings of one process; the hash
\* of a str is a 64-bit integer that depends on the hash seed of the process
HashValues == {0, 1, HashModulus}

HexDigits ==
    <<"0", "1", "2", "3", "4", "5", "6", "7", "8", "9", "a", "b", "c", "d",
      "e", "f">>

\* format(n, '04x') for n below 0x10000
Hex4(n) ==
    <<HexDigits[((n \div 4096) % 16) + 1], HexDigits[((n \div 256) % 16) + 1],
      HexDigits[((n \div 16) % 16) + 1], HexDigits[(n % 16) + 1]>>

\* s.replace(".git", "")
RECURSIVE RemoveDotGit(_)
RemoveDotGit(s) ==
    IF Len(s) < DotGitLen THEN s
    ELSE IF SubSeq(s, 1, DotGitLen) = DotGit
    THEN RemoveDotGit(SubSeq(s, DotGitLen + 1, Len(s)))
    ELSE <<Head(s)>> \o RemoveDotGit(Tail(s))

\* str(rep) for the repetitions of a run
Digits == <<"0", "1", "2", "3", "4", "5", "6", "7", "8", "9">>

\* workspace_name of _setup_workspace; hash is the hash function of the
\* process
WorkspaceName(url, task, hash, condition, rep) ==
    RemoveDotGit(LastSegment(url)) \o <<Hyphen>>
        \o CommitShort(task.pre_fix_commit) \o <<Hyphen>>
        \o Hex4(hash[task.id] % HashModulus) \o <<Hyphen>> \o condition
        \o <<Hyphen, "r", Digits[rep + 1]>>

\* the tasks of the run: two tasks of one repository that share their
\* pre_fix_commit
WsTasks ==
    { [id |-> "task-a", pre_fix_commit |-> PreFixCommit],
      [id |-> "task-b", pre_fix_commit |-> PreFixCommit] }

\* the trial keys of the run
TrialKeys ==
    [task : WsTasks, cond : {NONE, FLAT_LLM}, rep : 0..(MaxRepetitions - 1)]

\* the hash functions a process can have: distinct strings, distinct hashes
HashFunctions ==
    {h \in [Keys -> HashValues] : \A a, b \in Keys : a # b => h[a] # h[b]}

\* hash: the hash function of the process, <<>> before it has started;
\* alloc: the workspace name of each trial that ran _setup_workspace;
\* st: how far each trial is; dirs: the directories under workspaces_dir,
\* each with the trials that wrote into it; removed: pairs <<k, o>> where
\* the rmtree of trial k removed a directory trial o had written into
WsStart ==
    wsp = [hash |-> <<>>, alloc |-> <<>>,
           st |-> [k \in TrialKeys |-> "queued"],
           dirs |-> <<>>, removed |-> {}]

\* the interpreter starts and fixes the hash seed
WsSeed(h) ==
    /\ wsp.hash = <<>>
    /\ UNCHANGED nonWsVars
    /\ wsp' = [wsp EXCEPT !.hash = h]

\* function f without the argument x
Without(f, x) == [y \in DOMAIN f \ {x} |-> f[y]]

\* function f with f[x] = v
With(f, x, v) == [y \in DOMAIN f \cup {x} |-> IF y = x THEN v ELSE f[y]]

\* _setup_workspace of trial k: the name, rmtree when the directory exists;
\* at most MaxQueue trials of a run are followed
SetupWorkspace(k) ==
    /\ wsp.hash # <<>>
    /\ UNCHANGED nonWsVars
    /\ wsp.st[k] = "queued"
    /\ Cardinality(DOMAIN wsp.alloc) < MaxQueue
    /\ LET name == WorkspaceName(RunRepo, k.task, wsp.hash, k.cond, k.rep) IN
       wsp' = [wsp EXCEPT
                 !.alloc = With(@, k, name),
                 !.st[k] = "allocated",
                 !.dirs = IF name \in DOMAIN @ THEN Without(@, name) ELSE @,
                 !.removed = IF name \in DOMAIN wsp.dirs
                             THEN @ \cup {<<k, o>> : o \in wsp.dirs[name] \ {k}}
                             ELSE @]

\* clone_repo of trial k: git clone creates the directory, and fails when
\* it exists and is not empty
CloneRepo(k) ==
    /\ wsp.st[k] = "allocated"
    /\ UNCHANGED nonWsVars
    /\ wsp' = IF wsp.alloc[k] \in DOMAIN wsp.dirs
              THEN [wsp EXCEPT !.st[k] = "failed"]
              ELSE [wsp EXCEPT !.st[k] = "cloned",
                               !.dirs = With(@, wsp.alloc[k], {k})]

\* the later steps of trial k (checkout, strip, the agents, the test) write
\* into its workspace when the directory is there, and fail otherwise
WorkInWorkspace(k) ==
    /\ wsp.st[k] = "cloned"
    /\ UNCHANGED nonWsVars
    /\ wsp' = IF wsp.alloc[k] \in DOMAIN wsp.dirs
              THEN [wsp EXCEPT !.st[k] = "worked",
                               !.dirs[wsp.alloc[k]] = @ \cup {k}]
              ELSE [wsp EXCEPT !.st[k] = "failed"]

WsNext ==
    \/ \E h \in HashFunctions : WsSeed(h)
    \/ \E k \in TrialKeys : SetupWorkspace(k)
    \/ \E k \in TrialKeys : CloneRepo(k)
    \/ \E k \in TrialKeys : WorkInWorkspace(k)

(***************************************************************************)
(* TaskRunner._strip_context_files on a workspace and its surroundings.    *)
(* A path string is a sequence of pieces with "/" as its own piece; a      *)
(* canonical path is the sequence of its component names, each a sequence  *)
(* of pieces, so that work and work-evil share a prefix as strings.        *)
(***************************************************************************)
\* strip_extra lists of up to MaxExtras entries are followed
MaxExtras == 2

Dot == <<".">>

DotDot == <<"..">>

\* the components of path string s from piece i on, cur being the component
\* collected so far: s.split("/") without the empty components
RECURSIVE SplitFrom(_, _, _)
SplitFrom(s, i, cur) ==
    IF i > Len(s) THEN (IF cur = <<>> THEN <<>> ELSE <<cur>>)
    ELSE IF s[i] = Slash
    THEN (IF cur = <<>> THEN <<>> ELSE <<cur>>) \o SplitFrom(s, i + 1, <<>>)
    ELSE SplitFrom(s, i + 1, Append(cur, s[i]))

Components(s) == SplitFrom(s, 1, <<>>)

IsAbsolute(s) == s # <<>> /\ s[1] = Slash

\* workspace_path / extra: an absolute extra replaces the workspace
JoinPath(base, extra) ==
    IF IsAbsolute(extra) THEN extra ELSE base \o <<Slash>> \o extra

\* Path.resolve(): the walk over the components from the root, following
\* symbolic links, with ".." taken after the links before it are resolved
RECURSIVE Walk(_, _, _)
Walk(links, cur, rest) ==
    IF rest = <<>> THEN cur
    ELSE LET c == Head(rest) IN
         IF c = Dot THEN Walk(links, cur, Tail(rest))
         ELSE IF c = DotDot
         THEN Walk(links, IF cur = <<>> THEN cur
                          ELSE SubSeq(cur, 1, Len(cur) - 1), Tail(rest))
         ELSE IF Append(cur, c) \in DOMAIN links
         THEN Walk(links, links[Append(cur, c)], Tail(rest))
         ELSE Walk(links, Append(cur, c), Tail(rest))

Resolve(links, s) == Walk(links, <<>>, Components(s))

\* str(path) of a canonical path
RECURSIVE PathString(_)
PathString(p) ==
    IF p = <<>> THEN <<>> ELSE <<Slash>> \o Head(p) \o PathString(Tail(p))

\* a mutation of IsRelativeTo: the comparison of the two path strings
IsRelativeTo_StartsWith(p, root) ==
    /\ Len(PathString(root)) <= Len(PathString(p))
    /\ SubSeq(PathString(p), 1, Len(PathString(root))) = PathString(root)

\* PurePath.is_relative_to: root is a leading run of whole components of p
IsRelativeTo(p, root) ==
    Len(root) <= Len(p) /\ SubSeq(p, 1, Len(root)) = root

\* the workspace of the trial and what lies next to it
WorkspaceStr == <<"/", "t", "/", "work">>

WorkspaceDir == <<<<"t">>, <<"work">>>>

SiblingDir == <<<<"t">>, <<"work", "-evil">>>>

ImportantFile == <<<<"t">>, <<"important.txt">>>>

SecretFile == <<<<"t">>, <<"work", "-evil">>, <<"secret.txt">>>>

Under(p, name) == Append(p, <<name>>)

\* what a checkout can put into the workspace: context files, a source
\* directory, a .cursorrules file, a .github directory, a symbolic link to
\* the sibling directory, a CLAUDE.md that is a symbolic link to a file
\* outside
CheckoutParts == {"agents", "src", "cursorrules", "github", "link", "claude_link"}

CheckoutFiles(parts) ==
    (IF "agents" \in parts THEN {Under(WorkspaceDir, "AGENTS.md")} ELSE {})
    \cup (IF "src" \in parts
          THEN {Under(Under(WorkspaceDir, "src"), "AGENTS.md"),
                Under(Under(WorkspaceDir, "src"), "main.py")} ELSE {})
    \cup (IF "cursorrules" \in parts THEN {Under(WorkspaceDir, ".cursorrules")}
          ELSE {})
    \cup (IF "github" \in parts
          THEN {Under(Under(WorkspaceDir, ".github"), "ci.yml")} ELSE {})

CheckoutDirs(parts) ==
    (IF "src" \in parts THEN {Under(WorkspaceDir, "src")} ELSE {})
    \cup (IF "github" \in parts THEN {Under(WorkspaceDir, ".github")} ELSE {})

CheckoutLinks(parts) ==
    [p \in (IF "link" \in parts THEN {Under(WorkspaceDir, "link")} ELSE {})
           \cup (IF "claude_link" \in parts
                 THEN {Under(WorkspaceDir, "CLAUDE.md")} ELSE {}) |->
        IF p = Under(WorkspaceDir, "link") THEN SiblingDir ELSE ImportantFile]

\* the file system: regular files, directories, symbolic links with their
\* targets
FileSystem(files, dirs, links) == [files |-> files, dirs |-> dirs, links |-> links]

OutsideFiles == {ImportantFile, SecretFile}

OutsideDirs == {<<<<"t">>>>, SiblingDir}

\* the entries of strip_extra that are tried
ExtraOptions ==
    { <<"..", "/", "important.txt">>,
      <<"..", "/", "work", "-evil", "/", "secret.txt">>,
      <<"/", "t", "/", "important.txt">>,
      <<"src", "/", "..", "/", "..", "/", "work", "-evil">>,
      <<"link", "/", "secret.txt">>,
      <<"link">>,
      <<".cursorrules">>,
      <<"src">> }

StripExtraLists ==
    UNION { [1..n -> ExtraOptions] : n \in 0..MaxExtras }

\* everything of fs at or below the canonical path p
Below(fs, p) ==
    {q \in fs.files \cup fs.dirs \cup DOMAIN fs.links : IsRelativeTo(q, p)}

\* fs without the paths gone
RemovePaths(fs, gone) ==
    FileSystem(fs.files \ gone, fs.dirs \ gone,
               [q \in DOMAIN fs.links \ gone |-> fs.links[q]])

\* the path string of canonical path p relative to the workspace
RECURSIVE RelString(_)
RelString(p) ==
    IF Len(p) = 1 THEN Head(p) ELSE Head(p) \o <<Slash>> \o RelString(Tail(p))

RelativeTo(p, root) == RelString(SubSeq(p, Len(root) + 1, Len(p)))

\* the progress of one call: the file system, the strings appended to
\* removed, and the canonical paths that were deleted
StripState(fs, removed, deleted) ==
    [fs |-> fs, removed |-> removed, deleted |-> deleted]

\* glob("**/AGENTS.md") and glob("**/CLAUDE.md"): the entries with these
\* names below the workspace; directories that are symbolic links are not
\* descended into
GlobContextFiles(fs) ==
    {q \in (fs.files \cup DOMAIN fs.links) :
        /\ IsRelativeTo(q, WorkspaceDir)
        /\ Len(q) > Len(WorkspaceDir)
        /\ q[Len(q)] \in {<<"AGENTS.md">>, <<"CLAUDE.md">>}}

\* the universal part: unlink every match, rmtree .github
StripUniversal(fs) ==
    LET matches == GlobContextFiles(fs)
        github == Under(WorkspaceDir, ".github")
        tree == IF github \in fs.dirs THEN Below(fs, github) ELSE {}
    IN StripState(RemovePaths(fs, matches \cup tree),
                  {RelativeTo(q, WorkspaceDir) : q \in matches}
                      \cup (IF github \in fs.dirs THEN {<<".github">>} ELSE {}),
                  matches \cup tree)

\* the loop over strip_extra
RECURSIVE StripExtras(_, _)
StripExtras(st, extras) ==
    IF extras = <<>> THEN st
    ELSE LET extra == Head(extras)
             target == Resolve(st.fs.links, JoinPath(WorkspaceStr, extra))
             resolved_workspace == Resolve(st.fs.links, WorkspaceStr)
         IN IF ~IsRelativeTo(target, resolved_workspace)
            THEN StripExtras(st, Tail(extras))
            ELSE IF target \in st.fs.files
            THEN StripExtras(StripState(RemovePaths(st.fs, {target}),
                                        st.removed \cup {extra},
                                        st.deleted \cup {target}),
                             Tail(extras))
            ELSE IF target \in st.fs.dirs
            THEN StripExtras(StripState(RemovePaths(st.fs, Below(st.fs, target)),
                                        st.removed \cup {extra},
                                        st.deleted \cup Below(st.fs, target)),
                             Tail(extras))
            ELSE StripExtras(st, Tail(extras))

\* _strip_context_files(workspace, strip_extra); the returned list
\* sorted(set(removed)) is given as the set of its elements
StripContextFiles(fs, strip_extra) ==
    StripExtras(StripUniversal(fs), strip_extra)

EmptyFs == FileSystem({}, {}, <<>>)

SsStart ==
    ss = [pc |-> "start", before |-> EmptyFs, strip_extra |-> <<>>,
          fs |-> EmptyFs, removed |-> {}, deleted |-> {}]

\* clone_repo and checkout_commit have filled the workspace
SsCheckout(parts) ==
    /\ ss.pc = "start"
    /\ UNCHANGED nonSsVars
    /\ LET fs == FileSystem(OutsideFiles \cup CheckoutFiles(parts),
                            OutsideDirs \cup {WorkspaceDir} \cup CheckoutDirs(parts),
                            CheckoutLinks(parts))
       IN ss' = [ss EXCEPT !.pc = "checked_out", !.before = fs, !.fs = fs]

\* run(): removed = self._strip_context_files(workspace, strip_extra)
SsStrip(strip_extra) ==
    /\ ss.pc = "checked_out"
    /\ UNCHANGED nonSsVars
    /\ LET st == StripContextFiles(ss.fs, strip_extra) IN
       ss' = [ss EXCEPT !.pc = "stripped", !.strip_extra = strip_extra,
                        !.fs = st.fs, !.removed = st.removed,
                        !.deleted = st.deleted]

SsNext ==
    \/ \E parts \in SUBSET CheckoutParts : SsCheckout(parts)
    \/ \E strip_extra \in StripExtraLists : SsStrip(strip_extra)

(***************************************************************************)
(* The cache check of _check_or_generate_index and _generate_flat_context  *)
(* on a cache that earlier jobs have filled.                               *)
(***************************************************************************)
\* the call recorded in lk.call: its arguments, the keys that were in the
\* manifest when it looked, the workspace_path of the entry it restored
\* (<<>> for none) and whether the generation agent ran
NoLkCall ==
    [called |-> FALSE, commit |-> <<>>, condition |-> NoCondition,
     use_cache |-> FALSE, repo_seen |-> FALSE, commit_seen |-> FALSE,
     restored |-> <<>>, generated |-> FALSE]

LkStart == lk = [entries |-> EmptyMap, call |-> NoLkCall]

\* index_cache.save of an earlier warm-up (repo_level) or trial
LkSave(commit, condition, repo_level) ==
    /\ UNCHANGED nonLkVars
    /\ LET key == SaveKey(RunRepo, commit, condition, repo_level) IN
       lk' = [lk EXCEPT !.entries =
                 MapPut(@, key, CacheEntry(RunRepo, commit, key, {ClaudeMd}))]

\* the context step of a trial at commit under condition: the cache check
\* with restore on a hit; on a miss, and without a cache, the generation,
\* followed by save when there is a cache
LkContextStep(commit, condition, use_cache) ==
    /\ UNCHANGED nonLkVars
    /\ LET cache_entry == FindCacheEntry(lk.entries, RunRepo, commit, condition)
           hit == use_cache /\ cache_entry.present
           key == SaveKey(RunRepo, commit, condition, FALSE)
       IN lk' = [entries |-> IF hit \/ ~use_cache THEN lk.entries
                             ELSE MapPut(lk.entries, key,
                                         CacheEntry(RunRepo, commit, key,
                                                    {ClaudeMd})),
                 call |-> [called |-> TRUE, commit |-> commit,
                           condition |-> condition, use_cache |-> use_cache,
                           repo_seen |-> GetRepoCacheKey(RunRepo, condition)
                                             \in DOMAIN lk.entries,
                           commit_seen |-> GetCacheKey(RunRepo, commit, condition)
                                               \in DOMAIN lk.entries,
                           restored |-> IF hit THEN cache_entry.workspace_path
                                        ELSE <<>>,
                           generated |-> ~hit]]

LkNext ==
    \/ \E commit \in Commits, condition \in {FLAT_LLM, INTENT_LAYER} :
           LkSave(commit, condition, FALSE)
    \/ \E condition \in {FLAT_LLM, INTENT_LAYER} : LkSave(Latest, condition, TRUE)
    \/ \E commit \in Commits, condition \in {FLAT_LLM, INTENT_LAYER},
          use_cache \in BOOLEAN : LkContextStep(commit, condition, use_cache)

(***************************************************************************)
(* Reporter: compile_results over the list of TaskResults a run collected. *)
(* Rates are in hundredths, interval bounds in thousandths, wall-clock     *)
(* times in whole seconds and their medians in tenths.                     *)
(***************************************************************************)
\* the results one compile_results call is followed with
MaxResults == 4

\* Reporter.INFRA_ERROR_PREFIXES
INFRA_ERROR_PREFIXES ==
    {"[infrastructure]", "[pre-validation]", "[skill-generation]",
     "[empty-run]", "[worker-crash]"}

\* skill_generation=None of a TaskResult
NoSkillGeneration == <<>>

\* what run returns after the post-fix test (success from the exit code),
\* at the fix agent's timeout, for an empty run and from its except clauses,
\* and the result the as_completed loop builds for a crashed worker
TrialOutcomes ==
    { [kind |-> "pass", success |-> TRUE, error |-> NoError, is_timeout |-> FALSE,
       wall_clock_seconds |-> 20, input_tokens |-> 3, output_tokens |-> 1,
       tool_calls |-> 2, lines_changed |-> 4],
      [kind |-> "fail", success |-> FALSE, error |-> NoError, is_timeout |-> FALSE,
       wall_clock_seconds |-> 41, input_tokens |-> 4, output_tokens |-> 2,
       tool_calls |-> 5, lines_changed |-> 1],
      [kind |-> "timeout", success |-> FALSE,
       error |-> TaggedError("[timeout]", "Claude timed out"), is_timeout |-> TRUE,
       wall_clock_seconds |-> 60, input_tokens |-> 7, output_tokens |-> 3,
       tool_calls |-> 6, lines_changed |-> 0],
      [kind |-> "empty-run", success |-> FALSE,
       error |-> TaggedError("[empty-run]", "Claude produced no output"),
       is_timeout |-> FALSE,
       wall_clock_seconds |-> 1, input_tokens |-> 0, output_tokens |-> 0,
       tool_calls |-> 0, lines_changed |-> 0] }
    \cup
    { [kind |-> tag, success |-> FALSE, error |-> TaggedError(tag, "failed"),
       is_timeout |-> FALSE,
       wall_clock_seconds |-> 0, input_tokens |-> 0, output_tokens |-> 0,
       tool_calls |-> 0, lines_changed |-> 0] :
        tag \in {"[infrastructure]", "[pre-validation]", "[skill-generation]",
                 "[worker-crash]"} }

\* the outcomes followed for runs of MaxResults work items
PairedOutcomes == {o \in TrialOutcomes : o.kind \in {"pass", "timeout", "[worker-crash]"}}

\* SkillGenerationMetrics of a trial that reached the post-fix test under a
\* condition with generated context
GenerationMetrics ==
    [wall_clock_seconds |-> 9, input_tokens |-> 2, output_tokens |-> 1,
     cache_hit |-> FALSE]

\* the TaskResult of the work item (task_id, condition, rep) that ended as o;
\* rep is the item's repetition index, which TaskResult does not carry
Trial(task_id, condition, rep, o) ==
    [task_id |-> task_id, condition |-> condition, rep |-> rep,
     success |-> o.success, error |-> o.error, is_timeout |-> o.is_timeout,
     wall_clock_seconds |-> o.wall_clock_seconds,
     input_tokens |-> o.input_tokens, output_tokens |-> o.output_tokens,
     tool_calls |-> o.tool_calls, lines_changed |-> o.lines_changed,
     skill_generation |->
         IF condition # NONE /\ o.kind \in {"pass", "fail"}
         THEN GenerationMetrics ELSE NoSkillGeneration]

\* a mutation of IsInfraError: [timeout] is among the prefixes
IsInfraError_WithTimeout(r) ==
    /\ r.error # NoError
    /\ r.error[1] \in INFRA_ERROR_PREFIXES \cup {"[timeout]"}

\* Reporter._is_infra_error: error.startswith(INFRA_ERROR_PREFIXES)
IsInfraError(r) ==
    /\ r.error # NoError
    /\ r.error[1] \in INFRA_ERROR_PREFIXES

\* a / b to the nearest integer, half to even, for b > 0
RoundDiv(a, b) ==
    LET n == IF a < 0 THEN -a ELSE a
        q == n \div b
        rem == n % b
        up == IF 2 * rem > b \/ (2 * rem = b /\ q % 2 = 1) THEN q + 1 ELSE q
    IN IF a < 0 THEN -up ELSE up

\* int(a / b): towards zero
TruncDiv(a, b) == IF a < 0 THEN -((-a) \div b) ELSE a \div b

\* the k-th smallest of the values of the sequence vals
Kth(vals, k) ==
    CHOOSE v \in {vals[i] : i \in DOMAIN vals} :
        /\ Cardinality({i \in DOMAIN vals : vals[i] < v}) < k
        /\ k <= Cardinality({i \in DOMAIN vals : vals[i] <= v})

\* twice statistics.median(vals): the middle value, or the mean of the two
\* middle values
Median2(vals) ==
    IF Len(vals) % 2 = 1 THEN 2 * Kth(vals, (Len(vals) + 1) \div 2)
    ELSE Kth(vals, Len(vals) \div 2) + Kth(vals, (Len(vals) \div 2) + 1)

\* [f(r) for r in runs]
Map(runs, f(_)) == [i \in DOMAIN runs |-> f(runs[i])]

\* sum(1 for r in runs if r.success)
Successes(runs) == Len(SelectSeq(runs, LAMBDA r : r.success))

\* [r for r in runs if not self._is_infra_error(r)]
Valid(runs) == SelectSeq(runs, LAMBDA r : ~IsInfraError(r))

\* wilson_score_interval(successes, n, 0.90) through round(_, 3), in
\* thousandths, as the arithmetic of the function gives them in double
\* precision: WilsonValues[n][successes + 1] = <<lower, upper>>, n from 1 to
\* 12
WilsonValues ==
    <<
      <<<<0, 730>>, <<270, 1000>>>>,
      <<<<0, 575>>, <<121, 879>>, <<425, 1000>>>>,
      <<<<0, 474>>, <<78, 747>>, <<254, 922>>, <<526, 1000>>>>,
      <<<<0, 404>>, <<58, 644>>, <<182, 818>>, <<356, 942>>,
        <<597, 1000>>>>,
      <<<<0, 351>>, <<46, 565>>, <<143, 728>>, <<273, 857>>,
        <<435, 954>>, <<649, 1000>>>>,
      <<<<0, 311>>, <<38, 502>>, <<117, 653>>, <<221, 779>>,
        <<347, 883>>, <<498, 962>>, <<689, 1000>>>>,
      <<<<0, 279>>, <<33, 452>>, <<100, 591>>, <<186, 711>>,
        <<289, 814>>, <<409, 900>>, <<548, 968>>, <<721, 1000>>>>,
      <<<<0, 253>>, <<28, 411>>, <<86, 540>>, <<161, 652>>,
        <<249, 751>>, <<348, 839>>, <<460, 913>>, <<589, 972>>,
        <<747, 1000>>>>,
      <<<<0, 231>>, <<25, 377>>, <<76, 496>>, <<142, 602>>,
        <<218, 697>>, <<303, 782>>, <<398, 858>>, <<504, 923>>,
        <<623, 975>>, <<769, 1000>>>>,
      <<<<0, 213>>, <<23, 348>>, <<69, 459>>, <<127, 558>>,
        <<194, 648>>, <<269, 731>>, <<352, 806>>, <<442, 873>>,
        <<541, 931>>, <<652, 977>>, <<787, 1000>>>>,
      <<<<0, 197>>, <<21, 323>>, <<62, 427>>, <<115, 520>>,
        <<175, 606>>, <<242, 685>>, <<315, 758>>, <<394, 825>>,
        <<479, 885>>, <<573, 938>>, <<677, 980>>, <<803, 1000>>>>,
      <<<<0, 184>>, <<19, 301>>, <<57, 399>>, <<105, 487>>,
        <<160, 569>>, <<220, 644>>, <<285, 715>>, <<356, 780>>,
        <<431, 841>>, <<513, 895>>, <<601, 943>>, <<699, 981>>,
        <<816, 1000>>>>
    >>

\* wilson_score_interval(successes, n, 0.90) and the round(_, 3) of its
\* callers: (0.0, 1.0) for n = 0
WilsonScoreInterval(successes, n) ==
    IF n = 0 THEN [lower |-> 0, upper |-> 1000]
    ELSE [lower |-> WilsonValues[n][successes + 1][1],
          upper |-> WilsonValues[n][successes + 1][2]]

\* a mutation of CiOverlap: the comparisons are strict
CiOverlap_Strict(ci_a, ci_b) == ci_a.lower < ci_b.upper /\ ci_b.lower < ci_a.upper

\* ci_overlap
CiOverlap(ci_a, ci_b) == ci_a.lower <= ci_b.upper /\ ci_b.lower <= ci_a.upper

\* the metric fields of a serialized run
FixMetrics(r) ==
    [wall_clock_seconds |-> r.wall_clock_seconds, input_tokens |-> r.input_tokens,
     output_tokens |-> r.output_tokens, tool_calls |-> r.tool_calls,
     lines_changed |-> r.lines_changed]

\* Reporter._serialize_single_result
SerializeSingleResult(r) ==
    [success |-> r.success]
    @@ (IF r.skill_generation # NoSkillGeneration
        THEN [fix_only |-> FixMetrics(r),
              skill_generation |-> r.skill_generation,
              total |-> [wall_clock_seconds |->
                             r.wall_clock_seconds + r.skill_generation.wall_clock_seconds,
                         input_tokens |->
                             r.input_tokens + r.skill_generation.input_tokens,
                         output_tokens |->
                             r.output_tokens + r.skill_generation.output_tokens]]
        ELSE FixMetrics(r))
    @@ (IF r.error # NoError THEN [error |-> r.error] ELSE <<>>)
    @@ (IF r.is_timeout THEN [is_timeout |-> TRUE] ELSE <<>>)

\* a mutation of SerializeCondition: the aggregate is taken over every run
SerializeCondition_AllRuns(runs) ==
    IF Len(runs) = 1 THEN SerializeSingleResult(runs[1])
    ELSE [success_rate |-> RoundDiv(100 * Successes(runs), Len(runs)),
          success |-> RoundDiv(100 * Successes(runs), Len(runs)) >= 50,
          successes |-> Successes(runs),
          total_valid_runs |-> Len(runs),
          ci_90 |-> WilsonScoreInterval(Successes(runs), Len(runs)),
          median |->
              [wall_clock_seconds |->
                   5 * Median2(Map(runs, LAMBDA r : r.wall_clock_seconds)),
               input_tokens |-> Median2(Map(runs, LAMBDA r : r.input_tokens)) \div 2,
               output_tokens |-> Median2(Map(runs, LAMBDA r : r.output_tokens)) \div 2,
               tool_calls |-> Median2(Map(runs, LAMBDA r : r.tool_calls)) \div 2,
               lines_changed |-> Median2(Map(runs, LAMBDA r : r.lines_changed)) \div 2],
          runs |-> Map(runs, SerializeSingleResult)]

\* Reporter._serialize_condition
SerializeCondition(runs) ==
    LET valid_runs == Valid(runs)
        successes == Successes(valid_runs)
        success_rate == IF valid_runs # <<>>
                        THEN RoundDiv(100 * successes, Len(valid_runs)) ELSE 0
    IN IF Len(runs) = 1 THEN SerializeSingleResult(runs[1])
       ELSE [success_rate |-> success_rate,
             success |-> success_rate >= 50,
             successes |-> successes,
             total_valid_runs |-> Len(valid_runs),
             ci_90 |-> WilsonScoreInterval(successes, Len(valid_runs))]
            @@ (IF valid_runs # <<>>
                THEN [median |->
                      [wall_clock_seconds |->
                           5 * Median2(Map(valid_runs, LAMBDA r : r.wall_clock_seconds)),
                       input_tokens |->
                           Median2(Map(valid_runs, LAMBDA r : r.input_tokens)) \div 2,
                       output_tokens |->
                           Median2(Map(valid_runs, LAMBDA r : r.output_tokens)) \div 2,
                       tool_calls |->
                           Median2(Map(valid_runs, LAMBDA r : r.tool_calls)) \div 2,
                       lines_changed |->
                           Median2(Map(valid_runs, LAMBDA r : r.lines_changed)) \div 2]]
                ELSE <<>>)
            @@ [runs |-> Map(runs, SerializeSingleResult)]

\* pct of _compute_delta through the format +.1f: tenths of a percent, from
\* the doubled medians
Pct(baseline_val, treatment_val) ==
    IF baseline_val # 0
    THEN RoundDiv((treatment_val - baseline_val) * 1000, baseline_val)
    ELSE 0

\* Reporter._compute_delta; {} is the empty record
ComputeDelta(baseline_runs, treatment_runs) ==
    LET b_valid == Valid(baseline_runs)
        t_valid == Valid(treatment_runs)
        b_s == Successes(b_valid)
        t_s == Successes(t_valid)
        rate_delta == t_s * Len(b_valid) - b_s * Len(t_valid)
        Tokens(r) == r.input_tokens + r.output_tokens
    IN IF baseline_runs = <<>> \/ treatment_runs = <<>> THEN <<>>
       ELSE IF b_valid = <<>> \/ t_valid = <<>> THEN <<>>
       ELSE [success_rate_delta |->
                 IF Len(b_valid) > 1
                 THEN [format |-> "percent",
                       value |-> RoundDiv(100 * rate_delta, Len(b_valid) * Len(t_valid))]
                 ELSE [format |-> "int",
                       value |-> TruncDiv(rate_delta, Len(b_valid) * Len(t_valid))],
             time_percent |->
                 Pct(Median2(Map(b_valid, LAMBDA r : r.wall_clock_seconds)),
                     Median2(Map(t_valid, LAMBDA r : r.wall_clock_seconds))),
             tokens_percent |->
                 Pct(Median2(Map(b_valid, Tokens)), Median2(Map(t_valid, Tokens))),
             tool_calls_percent |->
                 Pct(Median2(Map(b_valid, LAMBDA r : r.tool_calls)),
                     Median2(Map(t_valid, LAMBDA r : r.tool_calls))),
             lines_changed_percent |->
                 Pct(Median2(Map(b_valid, LAMBDA r : r.lines_changed)),
                     Median2(Map(t_valid, LAMBDA r : r.lines_changed)))]

\* Condition.value, the key of a condition's block
Value(condition) == condition[1]

\* the conditions in the order compile_results and the summary name them
ConditionOrder == <<NONE, FLAT_LLM, INTENT_LAYER>>

\* grouped[task_id][cond]: the runs of a pair in the order of the list
RunsOf(results, task_id, condition) ==
    SelectSeq(results, LAMBDA r : r.task_id = task_id /\ r.condition = condition)

\* [r for r in results if r.condition == condition]
ResultsOfCondition(results, condition) ==
    SelectSeq(results, LAMBDA r : r.condition = condition)

\* the keys of grouped: the task ids in the order of their first result
GroupedTasks(results) ==
    LET first == {i \in DOMAIN results :
                     \A j \in 1..(i - 1) : results[j].task_id # results[i].task_id}
    IN [k \in 1..Cardinality(first) |->
           results[CHOOSE i \in first :
                       Cardinality({j \in first : j < i}) = k - 1].task_id]

\* the value None of a block that has no runs
NoBlock == [is_none |-> TRUE]

\* compile_results: the task_result of one task
CompileTask(results, task_id) ==
    LET Block(condition) ==
            IF RunsOf(results, task_id, condition) # <<>>
            THEN SerializeCondition(RunsOf(results, task_id, condition))
            ELSE NoBlock
    IN [task_id |-> task_id,
        none |-> Block(NONE),
        flat_llm |-> Block(FLAT_LLM),
        intent_layer |-> Block(INTENT_LAYER),
        deltas |->
            [flat_llm |-> ComputeDelta(RunsOf(results, task_id, NONE),
                                       RunsOf(results, task_id, FLAT_LLM)),
             intent_layer |-> ComputeDelta(RunsOf(results, task_id, NONE),
                                           RunsOf(results, task_id, INTENT_LAYER))]]

\* the comparisons of _compute_mcnemar: (cond_a, cond_b)
Comparisons ==
    {<<FLAT_LLM, NONE>>, <<INTENT_LAYER, NONE>>, <<INTENT_LAYER, FLAT_LLM>>}

\* min(len(a_runs), len(b_runs))
Min(a, b) == IF a <= b THEN a ELSE b

\* Reporter._compute_mcnemar: for each comparison the counts b (a passes, b
\* fails) and c (a fails, b passes) that mcnemar_test is called with
ComputeMcnemar(results) ==
    LET tasks == {results[i].task_id : i \in DOMAIN results}
        Pairs(cmp) ==
            {<<t, rep_idx>> \in tasks \X (1..Len(results)) :
                /\ rep_idx <= Min(Len(RunsOf(results, t, cmp[1])),
                                  Len(RunsOf(results, t, cmp[2])))
                /\ ~IsInfraError(RunsOf(results, t, cmp[1])[rep_idx])
                /\ ~IsInfraError(RunsOf(results, t, cmp[2])[rep_idx])}
    IN [cmp \in Comparisons |->
           [b |-> Cardinality({p \in Pairs(cmp) :
                      /\ RunsOf(results, p[1], cmp[1])[p[2]].success
                      /\ ~RunsOf(results, p[1], cmp[2])[p[2]].success}),
            c |-> Cardinality({p \in Pairs(cmp) :
                      /\ ~RunsOf(results, p[1], cmp[1])[p[2]].success
                      /\ RunsOf(results, p[1], cmp[2])[p[2]].success})]]

\* the confidence intervals and significance flags of a summary, from the
\* successes and valid runs per condition: the labels with valid runs get an
\* interval, the treatments are compared with none when both have one
Intervals(has_multi_run, successes, total) ==
    LET labels == IF has_multi_run
                  THEN {c \in Conditions : total[c] > 0} ELSE {}
        ci == [c \in labels |-> WilsonScoreInterval(successes[c], total[c])]
    IN [ci_90 |-> ci,
        significant |->
            [t \in (IF NONE \in labels THEN labels \ {NONE} ELSE {}) |->
                ~CiOverlap(ci[NONE], ci[t])]]

\* Reporter._compute_summary
ComputeSummary(results) ==
    LET Of(c) == ResultsOfCondition(results, c)
        has_multi_run ==
            \E i \in DOMAIN results :
                Len(RunsOf(results, results[i].task_id, results[i].condition)) > 1
        Tokens(r) == r.input_tokens + r.output_tokens
    IN [total_tasks |-> Cardinality({results[i].task_id : i \in DOMAIN results}),
        infrastructure_errors |-> Len(SelectSeq(results, IsInfraError)),
        success_rate |->
            [c \in Conditions |->
                IF Valid(Of(c)) = <<>> THEN 0
                ELSE RoundDiv(100 * Successes(Valid(Of(c))), Len(Valid(Of(c))))],
        itt_rate |->
            [c \in Conditions |->
                IF Of(c) = <<>> THEN 0
                ELSE RoundDiv(100 * Successes(Of(c)), Len(Of(c)))],
        median_tokens |->
            [c \in Conditions |->
                IF Valid(Of(c)) = <<>> THEN 0
                ELSE Median2(Map(Valid(Of(c)), Tokens)) \div 2],
        mcnemar |-> ComputeMcnemar(results)]
       @@ Intervals(has_multi_run,
                    [c \in Conditions |-> Successes(Valid(Of(c)))],
                    [c \in Conditions |-> Len(Valid(Of(c)))])

\* Reporter.compile_results: the task blocks and the summary
CompileResults(results) ==
    [results |-> Map(GroupedTasks(results), LAMBDA t : CompileTask(results, t)),
     summary |-> ComputeSummary(results)]

\* the work queues whose results are compiled: those of the driver, and one
\* task under all conditions
ReportQueues ==
    { q \in { WorkQueue(all_tasks, conditions, repetitions) :
                  all_tasks \in TaskOptions,
                  conditions \in ConditionOptions \cup {ConditionOrder},
                  repetitions \in 1..MaxRepetitions } :
        Len(q) <= MaxResults }

\* the orders in which the trials of a queue of n items can complete
Orders(n) ==
    {p \in [1..n -> 1..n] : \A i, j \in 1..n : i # j => p[i] # p[j]}

\* the outcomes followed for a queue: all of them up to MaxResults - 1 trials
OutcomesOf(q) == IF Len(q) < MaxResults THEN TrialOutcomes ELSE PairedOutcomes

NoCompile == [called |-> FALSE, queue |-> <<>>, results |-> <<>>, out |-> NoBlock]

RpStart == rp = NoCompile

\* the as_completed loop has collected the results of the queue q in the
\* order p, the trial of item n having ended as ends[n], and
\* reporter.compile_results(results) returns
RpCompile(q, p, ends) ==
    /\ ~rp.called
    /\ UNCHANGED nonRpVars
    /\ LET results == [k \in DOMAIN q |->
                          Trial(q[p[k]].task, q[p[k]].cond, q[p[k]].rep, ends[p[k]])]
       IN rp' = [called |-> TRUE, queue |-> q, results |-> results,
                 out |-> CompileResults(results)]

RpNext ==
    \E q \in ReportQueues :
        \E p \in Orders(Len(q)), ends \in [DOMAIN q -> OutcomesOf(q)] :
            RpCompile(q, p, ends)

(***************************************************************************)
(* cli.run --resume: the passed pairs of the prior results file, the       *)
(* filtered work queue, and the merge of the new results into the prior    *)
(* ones.  The prior file is the report of an earlier run.                  *)
(***************************************************************************)
\* the work items the prior run of a resumed run is followed with
MaxResumed == 3

\* the keys of the condition blocks: ("none", "flat_llm", "intent_layer")
CondKeys == {Value(c) : c \in Conditions}

\* the block of a condition in a task's record
BlockOf(task, condition) == task[Value(condition)]

\* _load_prior_results: the (task_id, condition) pairs whose block has
\* success True and no error field
LoadPriorResults(prior_results) ==
    {pair \in {<<prior_results[k].task_id, c>> :
                   k \in DOMAIN prior_results, c \in Conditions} :
        \E k \in DOMAIN prior_results :
            /\ prior_results[k].task_id = pair[1]
            /\ BlockOf(prior_results[k], pair[2]) # NoBlock
            /\ BlockOf(prior_results[k], pair[2]).success = TRUE
            /\ "error" \notin DOMAIN BlockOf(prior_results[k], pair[2])}

\* a mutation of FilterPassed: only the first repetition of a passed pair
\* is removed
FilterPassed_FirstRepetition(work_queue, passed_pairs) ==
    SelectSeq(work_queue, LAMBDA item :
        <<item.task, item.cond>> \notin passed_pairs \/ item.rep > 0)

\* run: the work queue without the items of the passed pairs
FilterPassed(work_queue, passed_pairs) ==
    SelectSeq(work_queue, LAMBDA item : <<item.task, item.cond>> \notin passed_pairs)

\* a mutation of IsInfraErrorDict: [timeout] is among the prefixes
IsInfraErrorDict_WithTimeout(cond_data) ==
    /\ "error" \in DOMAIN cond_data
    /\ cond_data.error[1] \in INFRA_ERROR_PREFIXES \cup {"[timeout]"}

\* _is_infra_error_dict
IsInfraErrorDict(cond_data) ==
    /\ "error" \in DOMAIN cond_data
    /\ cond_data.error[1] \in INFRA_ERROR_PREFIXES

RECURSIVE SeqSum(_)
\* the sum of a sequence of numbers
SeqSum(seq) == IF seq = <<>> THEN 0 ELSE Head(seq) + SeqSum(Tail(seq))

\* _recompute_summary
RecomputeSummary(merged_results) ==
    LET Blocks(c) ==
            SelectSeq(Map(merged_results, LAMBDA task : BlockOf(task, c)),
                      LAMBDA cond_data : cond_data # NoBlock)
        IsMulti(cond_data) == "runs" \in DOMAIN cond_data
        SuccessesOf(cond_data) ==
            IF IsMulti(cond_data) THEN cond_data.successes
            ELSE IF ~IsInfraErrorDict(cond_data) /\ cond_data.success = TRUE THEN 1
            ELSE 0
        TotalOf(cond_data) ==
            IF IsMulti(cond_data) THEN cond_data.total_valid_runs
            ELSE IF IsInfraErrorDict(cond_data) THEN 0 ELSE 1
        AssignedOf(cond_data) ==
            IF IsMulti(cond_data) THEN Len(cond_data.runs) ELSE 1
        successes == [c \in Conditions |-> SeqSum(Map(Blocks(c), SuccessesOf))]
        total == [c \in Conditions |-> SeqSum(Map(Blocks(c), TotalOf))]
        assigned == [c \in Conditions |-> SeqSum(Map(Blocks(c), AssignedOf))]
        has_multi_run ==
            \E c \in Conditions : \E k \in DOMAIN Blocks(c) : IsMulti(Blocks(c)[k])
    IN [total_tasks |-> Len(merged_results),
        infrastructure_errors |->
            SeqSum(Map(ConditionOrder, LAMBDA c : assigned[c] - total[c])),
        success_rate |->
            [c \in Conditions |->
                IF total[c] = 0 THEN 0 ELSE RoundDiv(100 * successes[c], total[c])],
        itt_rate |->
            [c \in Conditions |->
                IF assigned[c] = 0 THEN 0
                ELSE RoundDiv(100 * successes[c], assigned[c])]]
       @@ Intervals(has_multi_run, successes, total)

\* the deltas of a task with carried and new conditions
MixedNote == [note |-> "mixed resume - deltas not recomputed"]

\* a task that _merge_results leaves out
Skipped == [is_skipped |-> TRUE]

\* the entry of task_id in a list of task records, None when there is none
ByTask(task_results, task_id) ==
    IF \E k \in DOMAIN task_results : task_results[k].task_id = task_id
    THEN task_results[CHOOSE k \in DOMAIN task_results :
                          /\ task_results[k].task_id = task_id
                          /\ \A j \in DOMAIN task_results :
                                 task_results[j].task_id = task_id => j <= k]
    ELSE NoBlock

\* a mutation of TaskOrder: the tasks of the new results come first
TaskOrder_NewFirst(prior_results, new_results) ==
    Map(new_results, LAMBDA r : r.task_id)
    \o SelectSeq(Map(prior_results, LAMBDA r : r.task_id),
                 LAMBDA t : \A k \in DOMAIN new_results : new_results[k].task_id # t)

\* _merge_results: task_order, the prior tasks and then the new-only ones
TaskOrder(prior_results, new_results) ==
    Map(prior_results, LAMBDA r : r.task_id)
    \o SelectSeq(Map(new_results, LAMBDA r : r.task_id),
                 LAMBDA t : \A k \in DOMAIN prior_results : prior_results[k].task_id # t)

\* a mutation of PickBlock: a condition that was not re-run and had not
\* passed gets no block
PickBlock_NewOrNone(is_passed, new_block, prior_block) ==
    IF is_passed THEN prior_block ELSE new_block

\* _merge_results: the block of one condition of a prior task; new_block is
\* None when the task or the condition is not in the new results
PickBlock(is_passed, new_block, prior_block) ==
    IF is_passed THEN prior_block
    ELSE IF new_block # NoBlock THEN new_block
    ELSE prior_block

\* a mutation of MergedDeltas: the deltas of a mixed task are not cleared
MergedDeltas_NeverCleared(has_mixed, new_task, prior_task) ==
    IF new_task # NoBlock THEN new_task.deltas ELSE prior_task.deltas

\* _merge_results: the deltas of a merged prior task
MergedDeltas(has_mixed, new_task, prior_task) ==
    IF has_mixed THEN MixedNote
    ELSE IF new_task # NoBlock THEN new_task.deltas
    ELSE prior_task.deltas

\* _merge_results: the merged record of one task of task_order, Skipped for
\* a prior task that is neither in the new results nor has a passed pair
MergeTask(new_results, prior_results, passed_pairs, task_id) ==
    LET prior_task == ByTask(prior_results, task_id)
        new_task == ByTask(new_results, task_id)
        passed_task_ids == {pair[1] : pair \in passed_pairs}
        NewBlock(c) == IF new_task = NoBlock THEN NoBlock ELSE BlockOf(new_task, c)
        Merged(c) == PickBlock(<<task_id, c>> \in passed_pairs, NewBlock(c),
                               BlockOf(prior_task, c))
        has_carried == \E c \in Conditions : <<task_id, c>> \in passed_pairs
        has_new == \E c \in Conditions :
                       <<task_id, c>> \notin passed_pairs /\ NewBlock(c) # NoBlock
    IN IF prior_task = NoBlock THEN new_task
       ELSE IF new_task = NoBlock /\ task_id \notin passed_task_ids THEN Skipped
       ELSE [task_id |-> task_id,
             none |-> Merged(NONE),
             flat_llm |-> Merged(FLAT_LLM),
             intent_layer |-> Merged(INTENT_LAYER),
             deltas |-> MergedDeltas(has_carried /\ has_new, new_task, prior_task)]

\* _merge_results: the merged task records and the recomputed summary
MergeResults(new_results, prior_results, passed_pairs) ==
    LET merged ==
            SelectSeq(Map(TaskOrder(prior_results, new_results),
                          LAMBDA t : MergeTask(new_results, prior_results,
                                               passed_pairs, t)),
                      LAMBDA task : task # Skipped)
    IN [results |-> merged, summary |-> RecomputeSummary(merged)]

\* _load_pre_validated_tasks: the tasks of the prior report with a condition
\* block whose "error" (the empty string when the block has none) does not
\* start with [pre-validation]
LoadPreValidatedTasks(prior_results) ==
    {prior_results[k].task_id : k \in
        {k \in DOMAIN prior_results :
            \E c \in Conditions :
                LET cond == BlockOf(prior_results[k], c)
                    error == IF "error" \in DOMAIN cond THEN cond.error ELSE NoError
                IN /\ cond # NoBlock
                   /\ ~(error # NoError /\ error[1] = "[pre-validation]")}}

\* the work queues of the prior run
PriorQueues == {q \in ReportQueues : Len(q) <= MaxResumed}

\* the work queues of the resumed run: those of the prior run's task file,
\* and those of a task file where another task has taken the place of task-b
ResumeQueues ==
    ReportQueues
    \cup { q \in { WorkQueue(<<"task-a", "task-c">>, conditions, repetitions) :
                       conditions \in ConditionOptions \cup {ConditionOrder},
                       repetitions \in 1..MaxRepetitions } :
             Len(q) <= MaxResults }

\* the outcomes followed for the trials of the prior run
PriorOutcomes ==
    {o \in TrialOutcomes :
        o.kind \in {"pass", "fail", "timeout", "[worker-crash]", "[pre-validation]"}}

\* the results of the queue q, the trial of item n having ended as ends[n]
ResultsOfQueue(q, ends) ==
    [n \in DOMAIN q |-> Trial(q[n].task, q[n].cond, q[n].rep, ends[n])]

NoResume ==
    [pc |-> "start", prior_trials |-> <<>>, prior |-> <<>>, queue |-> <<>>,
     passed_pairs |-> {}, pre_validated_tasks |-> {}, work_queue |-> <<>>,
     results |-> <<>>, new_results |-> <<>>, out |-> NoBlock]

RsStart == rs = NoResume

\* run --resume: the file holds the report of an earlier run, whose queue q0
\* ended as ends0; _load_prior_results, _load_pre_validated_tasks, the work
\* queue q of this run and its filter
RsResume(q0, ends0, q) ==
    /\ rs.pc = "start"
    /\ UNCHANGED nonRsVars
    /\ LET prior == CompileResults(ResultsOfQueue(q0, ends0)).results
           passed_pairs == LoadPriorResults(prior)
       IN rs' = [rs EXCEPT !.pc = "loaded",
                           !.prior_trials = ResultsOfQueue(q0, ends0),
                           !.prior = prior,
                           !.queue = q,
                           !.passed_pairs = passed_pairs,
                           !.pre_validated_tasks = LoadPreValidatedTasks(prior),
                           !.work_queue = FilterPassed(q, passed_pairs)]

\* run --resume: the trials of the filtered queue have ended as ends;
\* compile_results and _merge_results
RsMerge(ends) ==
    /\ rs.pc = "loaded"
    /\ UNCHANGED nonRsVars
    /\ LET results == ResultsOfQueue(rs.work_queue, ends)
           new_results == CompileResults(results).results
       IN rs' = [rs EXCEPT !.pc = "merged",
                           !.results = results,
                           !.new_results = new_results,
                           !.out = MergeResults(new_results, rs.prior,
                                                rs.passed_pairs)]

RsNext ==
    \/ \E q0 \in PriorQueues, q \in ResumeQueues :
           \E ends0 \in [DOMAIN q0 -> PriorOutcomes] : RsResume(q0, ends0, q)
    \/ \E ends \in [DOMAIN rs.work_queue -> PairedOutcomes] : RsMerge(ends)

(***************************************************************************)
(* lib/stats.py: wilson_score_interval, ci_overlap and mcnemar_test as     *)
(* functions of their arguments.  Probabilities returned by                *)
(* wilson_score_interval are in ten-thousandths (the function rounds to    *)
(* four places); a p-value is the exact fraction num / den.                *)
(***************************************************************************)
\* the largest n of wilson_score_interval(successes, n)
MaxTrials == 12

\* the largest number b + c of discordant pairs of mcnemar_test(b, c)
MaxDiscordant == 10

\* 1.0 in ten-thousandths
One == 10000

\* the (lower, upper, center) that wilson_score_interval(successes, n, 0.90)
\* returns, in ten-thousandths, as the arithmetic of the function gives them
\* in double precision: WilsonTriples[n][successes + 1], n from 1 to 13
WilsonTriples ==
    <<
      <<<<0, 7301, 3651>>, <<2699, 10000, 6349>>>>,
      <<<<0, 5750, 2875>>, <<1209, 8791, 5000>>, <<4250, 10000, 7125>>>>,
      <<<<0, 4742, 2371>>, <<783, 7465, 4124>>, <<2535, 9217, 5876>>, <<5258, 10000, 7629>>>>,
      <<<<0, 4035, 2017>>, <<579, 6438, 3509>>, <<1824, 8176, 5000>>, <<3562, 9421, 6491>>,
        <<5965, 10000, 7983>>>>,
      <<<<0, 3511, 1756>>, <<460, 5647, 3053>>, <<1427, 7275, 4351>>, <<2725, 8573, 5649>>,
        <<4353, 9540, 6947>>, <<6489, 10000, 8244>>>>,
      <<<<0, 3108, 1554>>, <<381, 5024, 2703>>, <<1173, 6530, 3851>>, <<2213, 7787, 5000>>,
        <<3470, 8827, 6149>>, <<4976, 9619, 7297>>, <<6892, 10000, 8446>>>>,
      <<<<0, 2788, 1394>>, <<325, 4523, 2424>>, <<996, 5913, 3454>>, <<1864, 7105, 4485>>,
        <<2895, 8136, 5515>>, <<4087, 9004, 6546>>, <<5477, 9675, 7576>>, <<7212, 10000, 8606>>>>,
      <<<<0, 2527, 1264>>, <<284, 4111, 2198>>, <<865, 5398, 3132>>, <<1612, 6520, 4066>>,
        <<2486, 7514, 5000>>, <<3480, 8388, 5934>>, <<4602, 9135, 6868>>, <<5889, 9716, 7802>>,
        <<7473, 10000, 8736>>>>,
      <<<<0, 2311, 1156>>, <<252, 3768, 2010>>, <<765, 4964, 2864>>, <<1420, 6017, 3719>>,
        <<2180, 6965, 4573>>, <<3035, 7820, 5427>>, <<3983, 8580, 6281>>, <<5036, 9235, 7136>>,
        <<6232, 9748, 7990>>, <<7689, 10000, 8844>>>>,
      <<<<0, 2129, 1065>>, <<226, 3477, 1852>>, <<686, 4592, 2639>>, <<1269, 5583, 3426>>,
        <<1942, 6484, 4213>>, <<2693, 7307, 5000>>, <<3516, 8058, 5787>>, <<4417, 8731, 6574>>,
        <<5408, 9314, 7361>>, <<6523, 9774, 8148>>, <<7871, 10000, 8935>>>>,
      <<<<0, 1974, 987>>, <<205, 3228, 1717>>, <<621, 4271, 2446>>, <<1147, 5205, 3176>>,
        <<1751, 6060, 3906>>, <<2421, 6849, 4635>>, <<3151, 7579, 5365>>, <<3940, 8249, 6094>>,
        <<4795, 8853, 6824>>, <<5729, 9379, 7554>>, <<6772, 9795, 8283>>, <<8026, 10000, 9013>>>>,
      <<<<0, 1840, 920>>, <<188, 3012, 1600>>, <<568, 3992, 2280>>, <<1047, 4873, 2960>>,
        <<1595, 5685, 3640>>, <<2200, 6440, 4320>>, <<2855, 7145, 5000>>, <<3560, 7800, 5680>>,
        <<4315, 8405, 6360>>, <<5127, 8953, 7040>>, <<6008, 9432, 7720>>, <<6988, 9812, 8400>>,
        <<8160, 10000, 9080>>>>,
      <<<<0, 1723, 861>>, <<174, 2823, 1498>>, <<523, 3747, 2135>>, <<962, 4581, 2771>>,
        <<1464, 5352, 3408>>, <<2016, 6074, 4045>>, <<2611, 6752, 4682>>, <<3248, 7389, 5318>>,
        <<3926, 7984, 5955>>, <<4648, 8536, 6592>>, <<5419, 9038, 7229>>, <<6253, 9477, 7865>>,
        <<7177, 9826, 8502>>, <<8277, 10000, 9139>>>>
    >>

\* a mutation of WilsonScoreIntervalTuple: no special case for n = 0, the
\* centre of the formula's limit is returned
WilsonScoreIntervalTuple_NoZeroCase(successes, n) ==
    IF n = 0 THEN [lower |-> 0, upper |-> One, center |-> One \div 2]
    ELSE [lower |-> WilsonTriples[n][successes + 1][1],
          upper |-> WilsonTriples[n][successes + 1][2],
          center |-> WilsonTriples[n][successes + 1][3]]

\* wilson_score_interval(successes, n, 0.90): (0.0, 1.0, 0.0) for n = 0
WilsonScoreIntervalTuple(successes, n) ==
    IF n = 0 THEN [lower |-> 0, upper |-> One, center |-> 0]
    ELSE [lower |-> WilsonTriples[n][successes + 1][1],
          upper |-> WilsonTriples[n][successes + 1][2],
          center |-> WilsonTriples[n][successes + 1][3]]

RECURSIVE Binomial(_, _)
\* the number of ways to choose k of n
Binomial(n, k) ==
    IF k = 0 \/ k = n THEN 1
    ELSE Binomial(n - 1, k - 1) + Binomial(n - 1, k)

RECURSIVE Pow2(_)
Pow2(n) == IF n = 0 THEN 1 ELSE 2 * Pow2(n - 1)

RECURSIVE BinomialTail(_, _)
\* the number of outcomes of n fair tosses with at most k heads
BinomialTail(n, k) ==
    IF k = 0 THEN 1 ELSE Binomial(n, k) + BinomialTail(n, k - 1)

\* the exact value num / den, 1.0 being 1 / 1
Fraction(num, den) ==
    IF num >= den THEN [num |-> 1, den |-> 1] ELSE [num |-> num, den |-> den]

\* a mutation of McnemarTest: the one-sided tail is not doubled
McnemarTest_OneSided(b, c) ==
    [n_discordant |-> b + c, a_wins |-> b, b_wins |-> c,
     p_value |-> IF b + c = 0 THEN Fraction(1, 1)
                 ELSE Fraction(BinomialTail(b + c, Min(b, c)), Pow2(b + c))]

\* mcnemar_test(b, c): the two-sided exact binomial p-value over the b + c
\* discordant pairs, min(1, 2 * P(X <= min(b, c))) with X ~ Bin(b + c, 1/2),
\* and 1.0 when there is no discordant pair
McnemarTest(b, c) ==
    [n_discordant |-> b + c, a_wins |-> b, b_wins |-> c,
     p_value |-> IF b + c = 0 THEN Fraction(1, 1)
                 ELSE Fraction(2 * BinomialTail(b + c, Min(b, c)), Pow2(b + c))]

\* the end points of the intervals given to ci_overlap, in tenths
EndPoints == {1, 3, 5, 7, 9}

\* the tuples (lower, upper) given to ci_overlap
Intervals2 == {ci \in [lower : EndPoints, upper : EndPoints] : ci.lower <= ci.upper}

NoCall == [fn |-> "none", args |-> <<>>, out |-> NoBlock]

StStart == stc = NoCall

\* wilson_score_interval(successes, n, 0.90) returns
StWilson(successes, n) ==
    /\ stc = NoCall
    /\ UNCHANGED nonStVars
    /\ stc' = [fn |-> "wilson_score_interval", args |-> <<successes, n>>,
              out |-> WilsonScoreIntervalTuple(successes, n)]

\* ci_overlap(ci_a, ci_b) returns
StOverlap(ci_a, ci_b) ==
    /\ stc = NoCall
    /\ UNCHANGED nonStVars
    /\ stc' = [fn |-> "ci_overlap", args |-> <<ci_a, ci_b>>,
              out |-> CiOverlap(ci_a, ci_b)]

\* mcnemar_test(b, c) returns
StMcnemar(b, c) ==
    /\ stc = NoCall
    /\ UNCHANGED nonStVars
    /\ stc' = [fn |-> "mcnemar_test", args |-> <<b, c>>, out |-> McnemarTest(b, c)]

StNext ==
    \/ \E n \in 0..MaxTrials : \E successes \in 0..n : StWilson(successes, n)
    \/ \E ci_a \in Intervals2, ci_b \in Intervals2 : StOverlap(ci_a, ci_b)
    \/ \E b \in 0..MaxDiscordant, c \in 0..MaxDiscordant :
           b + c <= MaxDiscordant /\ StMcnemar(b, c)

(***************************************************************************)
(* IndexCache keys: save, lookup and lookup_repo of several repositories,  *)
(* commits and conditions on one manifest.  An entry is kept with the      *)
(* arguments of the save that stored it.                                   *)
(***************************************************************************)
\* the saves followed before the lookup
MaxKeySaves == 2

\* the conditions whose context is cached, and the default condition=""
KeyConditions == {FLAT_LLM, INTENT_LAYER, NoCondition}

NoKeyCall ==
    [called |-> FALSE, repo |-> <<>>, commit |-> <<>>, condition |-> NoCondition,
     repo_level |-> FALSE, found |-> FALSE,
     entry |-> [repo |-> <<>>, commit |-> <<>>, condition |-> NoCondition,
                repo_level |-> FALSE]]

KyStart == ky = [entries |-> EmptyMap, saved |-> {}, call |-> NoKeyCall]

\* save(repo, commit, workspace, agents_files, condition, repo_level):
\* self.manifest.entries[cache_key] = entry
KySave(repo, commit, condition, repo_level) ==
    /\ ~ky.call.called
    /\ Cardinality(ky.saved) < MaxKeySaves
    /\ UNCHANGED nonKyVars
    /\ LET args == [repo |-> repo, commit |-> commit, condition |-> condition,
                    repo_level |-> repo_level]
       IN ky' = [ky EXCEPT
                     !.entries = MapPut(@, SaveKey(repo, commit, condition,
                                                   repo_level), args),
                     !.saved = @ \cup {args}]

\* self.manifest.entries.get(cache_key), recorded with the arguments of
\* the lookup
EntriesGetKey(cache_key, repo, commit, condition, repo_level) ==
    [called |-> TRUE, repo |-> repo, commit |-> commit,
     condition |-> condition, repo_level |-> repo_level,
     found |-> cache_key \in DOMAIN ky.entries,
     entry |-> IF cache_key \in DOMAIN ky.entries
               THEN ky.entries[cache_key] ELSE NoKeyCall.entry]

\* lookup(repo, commit, condition)
KyLookup(repo, commit, condition) ==
    /\ ~ky.call.called
    /\ ky.saved # {}
    /\ UNCHANGED nonKyVars
    /\ ky' = [ky EXCEPT !.call =
                 EntriesGetKey(GetCacheKey(repo, commit, condition),
                               repo, commit, condition, FALSE)]

\* lookup_repo(repo, condition)
KyLookupRepo(repo, condition) ==
    /\ ~ky.call.called
    /\ ky.saved # {}
    /\ UNCHANGED nonKyVars
    /\ ky' = [ky EXCEPT !.call =
                 EntriesGetKey(GetRepoCacheKey(repo, condition),
                               repo, Latest, condition, TRUE)]

KyNext ==
    \/ \E repo \in RepoPaths, commit \in Commits, condition \in KeyConditions :
           KySave(repo, commit, condition, FALSE)
    \/ \E repo \in RepoPaths, condition \in KeyConditions \ {NoCondition} :
           KySave(repo, Latest, condition, TRUE)
    \/ \E repo \in RepoPaths, commit \in Commits, condition \in KeyConditions :
           KyLookup(repo, commit, condition)
    \/ \E repo \in RepoPaths, condition \in KeyConditions \ {NoCondition} :
           KyLookupRepo(repo, condition)


(***************************************************************************)
(* lib/git_ops.py: create_baseline_commit and get_diff_stats in the        *)
(* workspace of one trial of TaskRunner.run.  A tree gives every path its  *)
(* content: 0 for no file, 1 as committed at pre_fix_commit, 2 as written  *)
(* by the harness, 3 as written by the fix agent.                          *)
(***************************************************************************)
GdApp == <<"src", "app.py">>

GdTest == <<"tests", "test_app.py">>

GdSubAgents == <<"src", "AGENTS.md">>

GdCi == <<".github", "ci.yml">>

GdCodex == <<".codex", "rules.md">>

GdNotes == <<"notes.txt">>

GdPaths == {GdApp, GdTest, ClaudeMd, AgentsMd, GdSubAgents, GdCi, GdCodex, GdNotes}

\* the context files a repository may have committed
GdRepoParts == {ClaudeMd, GdCi, GdCodex}

\* the paths the fix agent writes or deletes
GdAgentPaths == {GdApp, GdTest, ClaudeMd, GdCodex, GdNotes}

\* the most paths one fix touches
MaxEdits == 2

GdEdits ==
    UNION {[S -> {0, 3}] : S \in {S \in SUBSET GdAgentPaths : Cardinality(S) <= MaxEdits}}

\* _CONTEXT_FILE_PATTERNS.search(path): a path segment AGENTS.md, CLAUDE.md
\* or .cursorrules, or a directory segment .github, .claude or .cursor
IsContextFile(path) ==
    \E i \in DOMAIN path :
        \/ path[i] \in {"AGENTS.md", "CLAUDE.md", ".cursorrules"}
        \/ i < Len(path) /\ path[i] \in {".github", ".claude", ".cursor"}

\* the lines of a content
LinesOf(content) == IF content = 0 THEN 0 ELSE content + 1

\* added + deleted of one --numstat line
NumStat(from, to) == IF from = to THEN 0 ELSE LinesOf(from) + LinesOf(to)

RECURSIVE SumNumStat(_, _, _)
SumNumStat(paths, from, to) ==
    IF paths = {} THEN 0
    ELSE LET p == CHOOSE p \in paths : TRUE
         IN NumStat(from[p], to[p]) + SumNumStat(paths \ {p}, from, to)

\* get_diff_stats: git add -A, then the staged tree against HEAD
GetDiffStats(head, tree) ==
    LET all_files == {p \in GdPaths : head[p] # tree[p]}
        files == {f \in all_files : ~IsContextFile(f)}
    IN [lines_changed |-> IF files # {} THEN SumNumStat(files, head, tree) ELSE 0,
        files_changed |-> Cardinality(files),
        files |-> files]

EmptyTree == [p \in GdPaths |-> 0]

NoDiffStats == [lines_changed |-> 0, files_changed |-> 0, files |-> {}]

GdStart ==
    gd = [pc |-> "start", tree |-> EmptyTree, head |-> EmptyTree,
          snapshot |-> EmptyTree, out |-> NoDiffStats]

\* clone_repo and checkout_commit: HEAD is pre_fix_commit
GdCheckout(parts) ==
    /\ gd.pc = "start"
    /\ UNCHANGED nonGdVars
    /\ LET tree == [p \in GdPaths |-> IF p \in {GdApp, GdTest} \cup parts THEN 1 ELSE 0]
       IN gd' = [gd EXCEPT !.pc = "checked_out", !.tree = tree, !.head = tree]

\* _strip_context_files: every AGENTS.md and CLAUDE.md, .github, the extras
GdStrip(strip_extra) ==
    /\ gd.pc = "checked_out"
    /\ UNCHANGED nonGdVars
    /\ gd' = [gd EXCEPT !.pc = "stripped",
                        !.tree = [p \in GdPaths |->
                                     IF \/ p[Len(p)] \in {"AGENTS.md", "CLAUDE.md"}
                                        \/ p[1] = ".github"
                                        \/ <<p[1]>> \in strip_extra
                                     THEN 0 ELSE gd.tree[p]]]

\* _inject_test_from_fix: the test file of fix_commit is written when the
\* task has one and git show succeeds
GdInject(injected) ==
    /\ gd.pc = "stripped"
    /\ UNCHANGED nonGdVars
    /\ gd' = [gd EXCEPT !.pc = "injected",
                        !.tree = IF injected THEN [@ EXCEPT ![GdTest] = 2] ELSE @]

\* the context of the condition, generated or restored from the cache
GdContext(condition) ==
    /\ gd.pc = "injected"
    /\ UNCHANGED nonGdVars
    /\ LET written == CASE condition = NONE -> {}
                        [] condition = FLAT_LLM -> {ClaudeMd, AgentsMd}
                        [] condition = INTENT_LAYER -> {ClaudeMd, GdSubAgents}
       IN gd' = [gd EXCEPT !.pc = "context_ready",
                           !.tree = [p \in GdPaths |->
                                        IF p \in written THEN 2 ELSE gd.tree[p]]]

\* create_baseline_commit: git add -A, then git commit, whose exit status
\* is not looked at; gd.snapshot is the tree at this call
CreateBaselineCommit(committed) ==
    /\ gd.pc = "context_ready"
    /\ UNCHANGED nonGdVars
    /\ gd' = [gd EXCEPT !.pc = "baseline",
                        !.snapshot = gd.tree,
                        !.head = IF committed THEN gd.tree ELSE @]

\* run_claude: the fix agent writes or deletes files
GdAgent(edits) ==
    /\ gd.pc = "baseline"
    /\ UNCHANGED nonGdVars
    /\ gd' = [gd EXCEPT !.pc = "agent_ran",
                        !.tree = [p \in GdPaths |->
                                     IF p \in DOMAIN edits THEN edits[p]
                                     ELSE gd.tree[p]]]

\* diff_stats = get_diff_stats(workspace), the figures of the TaskResult
GdDiff ==
    /\ gd.pc = "agent_ran"
    /\ UNCHANGED nonGdVars
    /\ gd' = [gd EXCEPT !.pc = "done", !.out = GetDiffStats(gd.head, gd.tree)]

GdNext ==
    \/ \E parts \in SUBSET GdRepoParts : GdCheckout(parts)
    \/ \E strip_extra \in {{}, {<<".codex">>}} : GdStrip(strip_extra)
    \/ \E injected \in BOOLEAN : GdInject(injected)
    \/ \E condition \in Conditions : GdContext(condition)
    \/ \E committed \in BOOLEAN : CreateBaselineCommit(committed)
    \/ \E edits \in GdEdits : GdAgent(edits)
    \/ GdDiff

(***************************************************************************)
(* Specifications                                                          *)
(***************************************************************************)
\* the state after construction of the caches
Init == PvcInit /\ IcStart /\ SqStart /\ RunStart /\ PvStart /\ DrvStart /\ WsStart /\ SsStart /\ LkStart /\ RpStart /\ RsStart /\ StStart /\ KyStart /\ GdStart

\* PreValidationCache shared by the trial workers
SpecPVC == Init /\ [][PvcNext]_vars

\* IndexCache objects of concurrent threads on one cache directory
SpecIC == Init /\ [][IcNext]_vars

\* one IndexCache at a time, with entry and file contents
SpecSeq == Init /\ [][SqNext]_vars

\* worker threads in TaskRunner.run and TaskRunner.warm_cache
SpecRun == Init /\ [][RunNext]_vars

\* TaskRunner._pre_validate applied to tasks and environments
SpecPreValidate == Init /\ [][PvNext]_vars

\* cli.run: warm-up pool, trial pool, report
SpecDrv == Init /\ [][DrvNext]_vars

\* the callers and the key followed in the fair specification
NumLiveCallers == 2

LiveCallers == 1..NumLiveCallers

LiveKeys == {"task-a"}

\* one step of caller c inside get_or_compute, after it has entered
GocStep(c) ==
    \/ GocWaitSignalled(c)
    \/ GocWaitTimeout(c)
    \/ GocReread(c)
    \/ GocCallFn(c)
    \/ \E v \in FnValues : GocFnReturns(c, v)
    \/ \E e \in FnExceptions : GocFnRaises(c, e)
    \/ GocStoreResult(c)
    \/ GocStoreError(c)
    \/ GocFinally(c)

\* one step of a pool thread or of the main thread of cli.run after the
\* options are parsed
DrvStep ==
    \/ \E c \in Conditions : WarmupRun(c)
    \/ \E c \in Conditions, warmed \in WarmupOutcomes : WarmupFinish(c, warmed)
    \/ \E c \in Conditions : WarmupCollect(c)
    \/ WarmupExit
    \/ \E i \in 1..MaxQueue : TrialRun(i)
    \/ \E i \in 1..MaxQueue, ran \in RunOutcomes : TrialFinish(i, ran)
    \/ \E i \in 1..MaxQueue : TrialCollect(i)
    \/ DrvReport

LiveNext ==
    \/ \E c \in LiveCallers, k \in LiveKeys : GocEnter(c, k)
    \/ \E c \in LiveCallers : GocStep(c)
    \/ \E no_cache \in BOOLEAN :
           DrvBegin(<<"task-a">>, <<NONE, FLAT_LLM>>, 1, no_cache)
    \/ DrvStep

\* PreValidationCache and cli.run with threads that keep being scheduled:
\* event.wait returns at its timeout at the latest, fn (a sandbox command
\* with a timeout) ends, a worker that has started ends
SpecLive ==
    /\ Init
    /\ [][LiveNext]_vars
    /\ \A c \in LiveCallers : WF_vars(GocStep(c))
    /\ WF_vars(DrvStep)

\* TaskRunner._setup_workspace for the trials of one run
SpecWs == Init /\ [][WsNext]_vars

\* TaskRunner._strip_context_files on a checked-out workspace
SpecStrip == Init /\ [][SsNext]_vars

\* the cache lookup of the context step on a filled cache
SpecLookup == Init /\ [][LkNext]_vars

\* Reporter.compile_results on the results of a run
SpecRep == Init /\ [][RpNext]_vars

\* cli.run --resume: load, filter, run, merge
SpecResume == Init /\ [][RsNext]_vars

\* the functions of lib/stats.py on bounded arguments
SpecStats == Init /\ [][StNext]_vars

\* saves and lookups of several repositories, commits and conditions on one manifest
SpecKeys == Init /\ [][KyNext]_vars

\* one trial, from checkout to the diff stats of its result
SpecDiff == Init /\ [][GdNext]_vars

Spec == SpecPVC

(***************************************************************************)
(* Claims about PreValidationCache (checked under SpecPVC)                 *)
(***************************************************************************)
ArrivedAt(k) == {c \in Callers : goc[c].pc # "idle" /\ goc[c].key = k}

\* C1: for every key the supplied computation is invoked at most once, and
\* exactly once as soon as every caller that arrived for the key has left
\* get_or_compute; a recorded result or failure is never computed again for a
\* later caller.
C1_ComputedOncePerKey ==
    \A k \in Keys :
        /\ fn_calls[k] <= 1
        /\ (ArrivedAt(k) # {} /\ \A c \in ArrivedAt(k) : goc[c].pc = "done")
               => fn_calls[k] = 1

\* C1 witness: a failure was recorded by the first caller, a second caller
\* waited for it and a third arrived later and was served from the record,
\* all with a single invocation of the computation.
C1_Witness ==
    \E k \in Keys : \E c1, c2, c3 \in Callers :
        /\ pvc_errors[k] # NoExc
        /\ fn_calls[k] = 1
        /\ goc[c1].key = k /\ goc[c1].pc = "done" /\ goc[c1].path = "first"
        /\ goc[c2].key = k /\ goc[c2].pc = "done" /\ goc[c2].path = "waited"
        /\ goc[c3].key = k /\ goc[c3].pc = "done" /\ goc[c3].path = "cached"
        /\ goc[c3].out.kind = "raise"

SameOutcome(a, b) ==
    /\ a.kind = b.kind
    /\ a.kind = "return" => a.val = b.val
    /\ a.kind = "raise" => a.exc.type = b.exc.type /\ Str(a.exc) = Str(b.exc)

\* C2: every caller that overlapped the first caller's computation ends with
\* the first caller's outcome (same value, or same exception type and
\* message), and no caller returns a value for a key before the first
\* caller's computation for that key has finished.
C2_WaitersShareFirstOutcome ==
    \A c \in Callers :
        (goc[c].pc = "done" /\ goc[c].path \in {"waited", "timed_out"}) =>
            /\ goc[c].out.kind = "return" => goc[c].key \in fn_finished
            /\ \A f \in Callers :
                   (goc[f].pc = "done" /\ goc[f].path = "first"
                        /\ goc[f].key = goc[c].key)
                       => SameOutcome(goc[c].out, goc[f].out)

(***************************************************************************)
(* Claims about the manifest under concurrent threads (checked under       *)
(* SpecIC)                                                                 *)
(***************************************************************************)
\* the threads inside the manifest write sequence: from the opening of the
\* temporary file to its rename
InWriteSequence == {t \in Threads : th[t].pc \in {"sm_write", "sm_close", "sm_rename"}}

\* C3: manifest writes are serialized: no two threads are inside the write
\* sequence (write the temporary file, rename it over the manifest) at once.
C3_ManifestWritesSerialized == Cardinality(InWriteSequence) <= 1

\* C4: at every moment the manifest file exists and holds one whole
\* manifest document (the previous or the new one), so that loading it
\* succeeds.
C4_ManifestAlwaysComplete ==
    /\ fs_names["manifest"] # NoFile
    /\ fs_inodes[fs_names["manifest"]].state = "full"

(***************************************************************************)
(* Claims about one IndexCache at a time (checked under SpecSeq)           *)
(***************************************************************************)
\* the entry directory of the save arguments a exists and holds a file
HoldsFile(a) ==
    ArgsKey(a) \in DOMAIN sq_dirs /\ DOMAIN sq_dirs[ArgsKey(a)] # {}

\* the entry was reconstructed by the orphan repair
IsRepaired(e) ==
    /\ e.present
    /\ Len(e.repo) >= Len(UnknownRepo)
    /\ SubSeq(e.repo, 1, Len(UnknownRepo)) = UnknownRepo

\* C5: whenever an IndexCache has been constructed on the directory, also
\* after a process was killed inside save before the manifest was written,
\* every entry directory that holds a generated file has a manifest entry,
\* and the lookup with the saved repository, commit and condition (lookup_repo
\* for a repo-level entry) returns the entry of that directory.
C5_OrphanDirectoriesDiscoverable ==
    sq_pc = "ready" =>
        \A a \in SaveArgs :
            HoldsFile(a) =>
                /\ ArgsKey(a) \in DOMAIN sq_mem
                /\ LookupFor(a).present
                /\ LookupFor(a).workspace_path = ArgsKey(a)

\* C5 witness: after a kill inside save, the new IndexCache holds a
\* reconstructed entry (repository "unknown") for a repo-level directory
\* whose name has two parts.
C5_Witness ==
    /\ sq_pc = "ready"
    /\ sq_kills >= 1
    /\ \E a \in SaveArgs :
           /\ a.repo_level
           /\ Len(RSplit2(ArgsKey(a))) = 2
           /\ HoldsFile(a)
           /\ IsRepaired(LookupFor(a))
           /\ ArgsKey(a) \in DOMAIN sq_manifest.entries

\* C6: after save(repo, commit, workspace, files, condition) followed by
\* restore(lookup(repo, commit, condition), target), every saved file is in
\* the target workspace at the same relative path with the same bytes.
C6_SaveRestoreRoundTrip ==
    sq_last.kind = "restore_after_save" =>
        \A p \in DOMAIN sq_last.files :
            p \in DOMAIN sq_target /\ sq_target[p] = sq_last.files[p]

\* C6 witness: a save of two files, one of them in a subdirectory, was
\* followed by the restore of its entry.
C6_Witness ==
    /\ sq_last.kind = "restore_after_save"
    /\ DOMAIN sq_last.files = Paths
    /\ ~sq_last.args.repo_level

(***************************************************************************)
(* Claims about TaskRunner.run and warm_cache (checked under SpecRun)      *)
(***************************************************************************)
\* the tag an error string begins with, "" for error=None
Tag(result) == IF result.error = NoError THEN "" ELSE result.error[1]

\* the tag the except clauses of run give an exception of class type
ExpectedTag(type) ==
    IF type = PreValidationErrorT THEN "[pre-validation]"
    ELSE IF type = SkillGenerationErrorT THEN "[skill-generation]"
    ELSE "[infrastructure]"

\* C7: run never raises; when an exception is raised inside a trial, run
\* returns a TaskResult with success false whose error begins with
\* [pre-validation] for a PreValidationError, [skill-generation] for a
\* SkillGenerationError and [infrastructure] for any other Exception.
C7_ExceptionsBecomeTaggedResults ==
    \A r \in Runners :
        rn[r].kind = "run" =>
            /\ rn[r].out.kind # "raise"
            /\ rn[r].exc # NoExc =>
                   /\ rn[r].pc = "done"
                   /\ rn[r].out.kind = "return"
                   /\ ~rn[r].out.val.success
                   /\ Tag(rn[r].out.val) = ExpectedTag(rn[r].exc.type)

\* C7 witness: one trial ended with a SkillGenerationError and another with
\* the FileNotFoundError of the manifest rename, each returned as a result.
C7_Witness ==
    \E r1, r2 \in Runners :
        /\ rn[r1].kind = "run" /\ rn[r1].pc = "done"
        /\ rn[r1].exc.type = SkillGenerationErrorT
        /\ Tag(rn[r1].out.val) = "[skill-generation]"
        /\ rn[r2].kind = "run" /\ rn[r2].pc = "done"
        /\ rn[r2].saved.called
        /\ rn[r2].exc = RenameError
        /\ Tag(rn[r2].out.val) = "[infrastructure]"

\* the context step of runner r missed the cache and generation left no
\* context file in the workspace
ZeroFileMiss(r) ==
    /\ rn[r].gen # "none"
    /\ ~rn[r].metrics.cache_hit
    /\ rn[r].metrics.files_created = {}

\* the job of runner r ended as a skill-generation failure: a trial with a
\* failed result tagged [skill-generation], a warm-up by raising
\* SkillGenerationError
EndedAsSkillGenerationFailure(r) ==
    IF rn[r].kind = "run"
    THEN /\ rn[r].out.kind = "return"
         /\ ~rn[r].out.val.success
         /\ Tag(rn[r].out.val) = "[skill-generation]"
    ELSE /\ rn[r].out.kind = "raise"
         /\ rn[r].out.exc.type = SkillGenerationErrorT

\* C8: when the context step was not a cache hit and generation left zero
\* context files, the fix agent is never invoked and the job ends as a
\* skill-generation failure (a tagged failed result for a trial, a raised
\* SkillGenerationError for a warm-up).
C8_ZeroFilesIsSkillGenerationFailure ==
    \A r \in Runners :
        ZeroFileMiss(r) =>
            /\ ~rn[r].fix.invoked
            /\ rn[r].pc = "done" => EndedAsSkillGenerationFailure(r)

\* C9: a fix-agent result with zero tokens, zero tool calls and no timeout
\* gives [empty-run]; a timed-out result gives [timeout] with is_timeout
\* set, also with zero tokens and tool calls; in both cases the trial is
\* over, the post-fix test was not run and success is false.
C9_EmptyRunAndTimeoutClassified ==
    \A r \in Runners :
        rn[r].fix.invoked =>
            LET res == rn[r].fix
                zero == res.input_tokens = 0 /\ res.output_tokens = 0
                            /\ res.tool_calls = 0
            IN /\ (zero /\ ~res.timed_out) =>
                      /\ rn[r].pc = "done"
                      /\ Tag(rn[r].out.val) = "[empty-run]"
                      /\ ~rn[r].out.val.is_timeout
                      /\ ~rn[r].out.val.success
                      /\ ~rn[r].tested
               /\ res.timed_out =>
                      /\ rn[r].pc = "done"
                      /\ Tag(rn[r].out.val) = "[timeout]"
                      /\ rn[r].out.val.is_timeout
                      /\ ~rn[r].out.val.success
                      /\ ~rn[r].tested
               /\ (rn[r].pc = "done" /\ ~res.timed_out /\ ~zero) =>
                      Tag(rn[r].out.val) \notin {"[empty-run]", "[timeout]"}

\* C9 witness: one trial ended as an empty run, another as the timeout of a
\* fix agent that reported zero tokens and tool calls.
C9_Witness ==
    \E r1, r2 \in Runners :
        /\ rn[r1].fix = ClaudeResult(0, 0, 0, FALSE)
        /\ Tag(rn[r1].out.val) = "[empty-run]"
        /\ rn[r2].fix = ClaudeResult(0, 0, 0, TRUE)
        /\ Tag(rn[r2].out.val) = "[timeout]"
        /\ rn[r2].out.val.is_timeout

\* C10: when the generation agent was killed at its timeout, nothing it left
\* behind is saved into the cache, the fix agent is not invoked and the job
\* ends as a skill-generation failure.
C10_GenerationTimeoutIsFailure ==
    \A r \in Runners :
        rn[r].gen = "timed_out" =>
            /\ rn[r].saved.files = {}
            /\ ~rn[r].fix.invoked
            /\ rn[r].pc = "done" => EndedAsSkillGenerationFailure(r)

(***************************************************************************)
(* Claims about _pre_validate (checked under SpecPreValidate)              *)
(***************************************************************************)
\* the setup chain failed or the docker process could not be started
EnvironmentFailure(task, env) ==
    ~env.docker_starts \/ (task.has_setup /\ env.setup_exit # 0)

\* C11: pre-validation of a failing_test task returns only when the
\* environment executed the test command and the target test failed; a
\* setup or environment failure, a target test that passes and a timed-out
\* command each raise PreValidationError.
C11_PreValidationOnlyOnRealFailure ==
    (pv.called /\ pv.task.prompt_source = "failing_test") =>
        LET env == pv.env
            broken == EnvironmentFailure(pv.task, env)
            executed == ~broken /\ ~env.times_out
        IN /\ pv.out.kind = "return" => (executed /\ env.command_exit # 0)
           /\ (broken \/ env.times_out \/ env.command_exit = 0) =>
                  /\ pv.out.kind = "raise"
                  /\ pv.out.exc.type = PreValidationErrorT

\* the steps of a trial in the order of run; the context step is left out
\* for condition none
TrialOrder(cond) ==
    IF cond = NONE
    THEN <<"clone", "checkout", "strip", "pre_validate", "baseline", "claude",
           "test", "diff">>
    ELSE <<"clone", "checkout", "strip", "pre_validate", "context", "baseline",
           "claude", "test", "diff">>

IsPrefix(s, t) == Len(s) <= Len(t) /\ SubSeq(t, 1, Len(s)) = s

\* the trial of runner r failed: an exception was raised, or the fix agent
\* run was empty or timed out
TrialFailed(r) ==
    \/ rn[r].exc # NoExc
    \/ rn[r].fix.invoked /\ (IsEmptyRun(rn[r].fix) \/ rn[r].fix.timed_out)

\* the steps of the trial of runner r after pre-validation have started
PastPreValidation(r) ==
    \E i \in DOMAIN rn[r].steps : rn[r].steps[i] \in {"context", "baseline"}

\* C12: the steps of a trial are started in the fixed order; a step after
\* pre-validation starts only when the pre-validation of the task has
\* completed successfully; after a failed step (or an empty or timed-out
\* agent run) the trial is over and no later step starts.
C12_StepsInOrder ==
    \A r \in Runners :
        rn[r].kind = "run" =>
            /\ IsPrefix(rn[r].steps, TrialOrder(rn[r].cond))
            /\ TrialFailed(r) => rn[r].pc = "done"
            /\ PastPreValidation(r) => rn[r].preval = "passed"

\* the error tags of a failed trial
ErrorTags ==
    {"[pre-validation]", "[skill-generation]", "[infrastructure]",
     "[worker-crash]", "[empty-run]", "[timeout]"}

\* C13: the result of a trial has success true exactly when the trial
\* reached the post-fix test run and that run ended with exit code 0; a
\* result whose error carries one of the tags has success false, the
\* [worker-crash] result of the driver included.
C13_SuccessIffPostTestPassed ==
    /\ \A r \in Runners :
           (rn[r].kind = "run" /\ rn[r].out.kind = "return") =>
               /\ rn[r].out.val.success <=> (rn[r].tested /\ rn[r].passed)
               /\ Tag(rn[r].out.val) \in ErrorTags => ~rn[r].out.val.success
               /\ rn[r].out.val.success => Tag(rn[r].out.val) = ""
    /\ \A e \in FnExceptions \cup {CalledProcessError, DockerStartError} :
           /\ Tag(WorkerCrashResult(e)) = "[worker-crash]"
           /\ ~WorkerCrashResult(e).success

\* C13 witness: one trial ended with a passing post-fix test and success
\* true, another ran its post-fix test with a non-zero exit code and has
\* success false without an error tag.
C13_Witness ==
    \E r1, r2 \in Runners :
        /\ rn[r1].kind = "run" /\ rn[r1].pc = "done"
        /\ rn[r1].tested /\ rn[r1].passed /\ rn[r1].out.val.success
        /\ rn[r2].kind = "run" /\ rn[r2].pc = "done"
        /\ rn[r2].tested /\ ~rn[r2].passed /\ rn[r2].exc = NoExc
        /\ ~rn[r2].out.val.success /\ Tag(rn[r2].out.val) = ""

(***************************************************************************)
(* Claims about cli.run (checked under SpecDrv and SpecLive)               *)
(***************************************************************************)
\* the positions in results of the results appended for future i
ResultsOf(i) == {j \in DOMAIN drv.from : drv.from[j] = i}

\* C14: an exception that a trial worker raised becomes exactly one result
\* with success false and the [worker-crash] tag, carrying the task id and
\* the condition of the worker's item; the futures of the other items are
\* still collected, and the report that is written holds a result for every
\* item of the work queue.
C14_WorkerCrashBecomesResult ==
    /\ \A i \in DOMAIN drv.futures :
           (drv.futures[i].state = "yielded"
              /\ drv.futures[i].out.kind = "raise") =>
               /\ Cardinality(ResultsOf(i)) = 1
               /\ \A j \in ResultsOf(i) :
                      drv.results[j] =
                          [task_id |-> drv.queue[i].task,
                           condition |-> drv.queue[i].cond,
                           success |-> FALSE,
                           error |-> <<"[worker-crash]",
                                       Str(drv.futures[i].out.exc)>>]
    /\ drv.pc = "done" =>
           /\ drv.report.written
           /\ drv.report.results = drv.results
           /\ Len(drv.report.results) = Len(drv.queue)

\* C14 witness: the report of a run with four work items is written, the
\* worker of the second item crashed and a future collected after it has
\* its result in the report.
C14_Witness ==
    /\ drv.pc = "done" /\ drv.report.written
    /\ Len(drv.queue) = MaxQueue
    /\ drv.futures[2].out.kind = "raise"
    /\ \E j \in DOMAIN drv.report.results :
           /\ drv.from[j] = 2
           /\ drv.report.results[j].error[1] = "[worker-crash]"
           /\ j < Len(drv.report.results)

\* the number of work items of task t under condition c
ItemsFor(t, c) ==
    Cardinality({i \in DOMAIN drv.queue :
                    drv.queue[i].task = t /\ drv.queue[i].cond = c})

\* the number of results with task id t and condition c
ResultsFor(t, c) ==
    Cardinality({j \in DOMAIN drv.results :
                    drv.results[j].task_id = t /\ drv.results[j].condition = c})

\* C15: in whatever order the futures complete, no work item gets more than
\* one result, every result carries the task id and the condition of its
\* item, and when the loop is left the result list holds exactly one result
\* for every (task, condition, repetition) item of the work queue.
C15_OneResultPerWorkItem ==
    /\ \A i \in DOMAIN drv.queue : Cardinality(ResultsOf(i)) <= 1
    /\ \A j \in DOMAIN drv.results :
           /\ drv.results[j].task_id = drv.queue[drv.from[j]].task
           /\ drv.results[j].condition = drv.queue[drv.from[j]].cond
    /\ drv.pc = "done" =>
           /\ \A i \in DOMAIN drv.queue : Cardinality(ResultsOf(i)) = 1
           /\ Len(drv.results) = Len(drv.queue)
           /\ \A t \in Keys, c \in Conditions :
                  ResultsFor(t, c) = ItemsFor(t, c)

\* C15 witness: a run with four work items, two of them repetitions of one
\* (task, condition) pair, has left the loop with its futures collected in
\* an order that is not the order of the work queue.
C15_Witness ==
    /\ drv.pc = "done"
    /\ Len(drv.queue) = MaxQueue
    /\ drv.queue[1].task = drv.queue[2].task
    /\ drv.queue[1].cond = drv.queue[2].cond
    /\ drv.from = <<2, 1, 4, 3>>

\* C16: a trial future exists, and a trial starts, only when every warm-up
\* future has finished and been handled; the report is written only when
\* every trial of the work queue has finished and its result has been
\* appended.
C16_PhasesStrictlyOrdered ==
    /\ drv.futures # <<>> =>
           \A c \in DOMAIN drv.warm : drv.warm[c].state = "yielded"
    /\ drv.report.written =>
           /\ DOMAIN drv.futures = DOMAIN drv.queue
           /\ \A i \in DOMAIN drv.queue :
                  /\ drv.futures[i].state = "yielded"
                  /\ ResultsOf(i) # {}

\* C16 witness: a run with two warm-up items, one of which raised, has
\* written its report.
C16_Witness ==
    /\ drv.report.written
    /\ Cardinality(DOMAIN drv.warm) = 2
    /\ \E c \in DOMAIN drv.warm : drv.warm[c].out.kind = "raise"
    /\ \E c \in DOMAIN drv.warm : drv.warm[c].out.kind = "return"
    /\ Len(drv.results) = MaxQueue

C18_WorkspacesNeverShared ==
    /\ \A k1, k2 \in DOMAIN wsp.alloc :
           k1 # k2 => wsp.alloc[k1] # wsp.alloc[k2]
    /\ wsp.removed = {}
    /\ \A d \in DOMAIN wsp.dirs : Cardinality(wsp.dirs[d]) <= 1

(***************************************************************************)
(* Claims about TaskRunner._strip_context_files (checked under SpecStrip)  *)
(***************************************************************************)
\* the canonical path p is the workspace root or lies below it
InsideWorkspace(p) ==
    /\ Len(p) >= Len(WorkspaceDir)
    /\ \A i \in DOMAIN WorkspaceDir : p[i] = WorkspaceDir[i]

\* the entry extra of strip_extra names something whose canonical path, in
\* the file system links, is not inside the workspace
NamesOutside(links, extra) ==
    ~InsideWorkspace(Resolve(links, JoinPath(WorkspaceStr, extra)))

\* C19: whatever strip_extra holds, every path _strip_context_files deleted
\* is inside the workspace, every file, directory and link outside the
\* workspace is still there, and an entry that names something outside the
\* workspace (through "..", an absolute path, a sibling whose name begins
\* with the workspace name, or a symbolic link) is not in the returned list.
C19_StripStaysInsideWorkspace ==
    ss.pc = "stripped" =>
        /\ \A p \in ss.deleted : InsideWorkspace(p)
        /\ \A p \in ss.before.files \cup ss.before.dirs :
               ~InsideWorkspace(p) =>
                   p \in ss.fs.files \cup ss.fs.dirs
        /\ \A i \in DOMAIN ss.strip_extra :
               NamesOutside(ss.before.links, ss.strip_extra[i]) =>
                   ss.strip_extra[i] \notin ss.removed

\* C19 witness: a call whose strip_extra held the sibling's secret file and
\* an entry inside the workspace has removed the inside entry and context
\* files, with a symbolic link to the sibling in the workspace.
C19_Witness ==
    /\ ss.pc = "stripped"
    /\ ss.strip_extra = << <<"..", "/", "work", "-evil", "/", "secret.txt">>,
                           <<"src">> >>
    /\ <<"src">> \in ss.removed
    /\ Under(WorkspaceDir, "AGENTS.md") \in ss.deleted
    /\ Under(WorkspaceDir, "link") \in DOMAIN ss.before.links
    /\ SecretFile \in ss.fs.files

(***************************************************************************)
(* Claims about the cache check of the context step (SpecLookup)           *)
(***************************************************************************)
\* C20: a context step that uses the cache restores the repo-level entry
\* whenever one exists for its repository and condition, also when a
\* commit-level entry exists; it restores the commit-level entry only when
\* there is no repo-level entry, and it generates only when neither exists.
C20_RepoLevelEntryFirst ==
    (lk.call.called /\ lk.call.use_cache) =>
        /\ lk.call.repo_seen =>
               /\ lk.call.restored = GetRepoCacheKey(RunRepo, lk.call.condition)
               /\ ~lk.call.generated
        /\ (~lk.call.repo_seen /\ lk.call.commit_seen) =>
               /\ lk.call.restored =
                      GetCacheKey(RunRepo, lk.call.commit, lk.call.condition)
               /\ ~lk.call.generated
        /\ lk.call.generated => (~lk.call.repo_seen /\ ~lk.call.commit_seen)

\* C20 witness: a context step found both a repo-level and a commit-level
\* entry for its condition and restored the repo-level one.
C20_Witness ==
    /\ lk.call.called /\ lk.call.use_cache
    /\ lk.call.repo_seen /\ lk.call.commit_seen
    /\ lk.call.restored = GetRepoCacheKey(RunRepo, lk.call.condition)
    /\ lk.call.restored # GetCacheKey(RunRepo, lk.call.commit, lk.call.condition)

(***************************************************************************)
(* Claims about the report                                                 *)
(***************************************************************************)
\* the trials whose error tag marks an apparatus failure
Apparatus(r) ==
    /\ r.error # NoError
    /\ r.error[1] \in {"[pre-validation]", "[skill-generation]", "[empty-run]",
                       "[worker-crash]", "[infrastructure]"}

\* the positions of the trials of condition c that count for the
\* per-protocol rate: everything but the apparatus failures
Counted(c) ==
    {i \in DOMAIN rp.results :
        rp.results[i].condition = c /\ ~Apparatus(rp.results[i])}

\* rate is s / n to the nearest hundredth
IsRate(rate, s, n) ==
    /\ 2 * (100 * s - rate * n) <= n
    /\ 2 * (rate * n - 100 * s) <= n

\* the values of the positions idx of a sequence, as a sequence
Pick(seq, idx) ==
    [k \in 1..Cardinality(idx) |->
        seq[CHOOSE i \in idx : Cardinality({j \in idx : j < i}) = k - 1]]

\* C21: in the summary of a result list, the trials tagged pre-validation,
\* skill-generation, empty-run, worker-crash or infrastructure are left out
\* of the per-protocol success denominator and of the medians and are
\* counted in infrastructure_errors; timeout-tagged and untagged failures
\* stay in the denominator as failures
C21_ApparatusFailuresExcluded ==
    rp.called =>
        /\ rp.out.summary.infrastructure_errors =
               Cardinality({i \in DOMAIN rp.results : Apparatus(rp.results[i])})
        /\ \A c \in Conditions :
               LET n == Cardinality(Counted(c))
                   s == Cardinality({i \in Counted(c) : rp.results[i].success})
                   tokens == [i \in DOMAIN rp.results |->
                                 rp.results[i].input_tokens
                                 + rp.results[i].output_tokens]
               IN /\ IF n = 0 THEN rp.out.summary.success_rate[c] = 0
                     ELSE IsRate(rp.out.summary.success_rate[c], s, n)
                  /\ IF n = 0 THEN rp.out.summary.median_tokens[c] = 0
                     ELSE rp.out.summary.median_tokens[c] =
                              Median2(Pick(tokens, Counted(c))) \div 2

\* a list with an apparatus failure, a timeout and a pass under one
\* condition has been summarised: the rate is one of two
C21_Witness ==
    /\ rp.called
    /\ \E i, j, k \in DOMAIN rp.results :
           /\ rp.results[i].condition = rp.results[j].condition
           /\ rp.results[j].condition = rp.results[k].condition
           /\ Apparatus(rp.results[i])
           /\ rp.results[j].is_timeout
           /\ rp.results[k].success
           /\ Cardinality(Counted(rp.results[i].condition)) = 2
           /\ rp.out.summary.success_rate[rp.results[i].condition] = 50
           /\ rp.out.summary.infrastructure_errors = 2

\* the result of the work item (task_id, condition, rep) in the list
ResultOfItem(results, task_id, condition, rep) ==
    CHOOSE r \in {results[i] : i \in DOMAIN results} :
        r.task_id = task_id /\ r.condition = condition /\ r.rep = rep

\* the results of the run listed in the order of the work queue
InQueueOrder ==
    [n \in DOMAIN rp.queue |->
        ResultOfItem(rp.results, rp.queue[n].task, rp.queue[n].cond,
                     rp.queue[n].rep)]

\* the block of a task in a compiled result list, None when it has none
TaskBlock(compiled, task_id) ==
    IF \E k \in DOMAIN compiled : compiled[k].task_id = task_id
    THEN compiled[CHOOSE k \in DOMAIN compiled : compiled[k].task_id = task_id]
    ELSE NoBlock

\* a condition block without the array of its individual runs
Aggregate(block) ==
    IF block = NoBlock THEN NoBlock
    ELSE [f \in DOMAIN block \ {"runs"} |-> block[f]]

\* C22: aggregation is order-independent: the results of a run compiled in
\* the order they completed give the same summary (rates, infrastructure
\* errors, intervals, significance flags, McNemar table) and the same
\* per-(task, condition) aggregates and deltas as the same results in the
\* order of the work queue, hence as in any other order
C22_AggregationOrderIndependent ==
    rp.called =>
        LET other == CompileResults(InQueueOrder)
        IN /\ rp.out.summary = other.summary
           /\ \A n \in DOMAIN rp.queue :
                  LET mine == TaskBlock(rp.out.results, rp.queue[n].task)
                      theirs == TaskBlock(other.results, rp.queue[n].task)
                  IN /\ Aggregate(mine.none) = Aggregate(theirs.none)
                     /\ Aggregate(mine.flat_llm) = Aggregate(theirs.flat_llm)
                     /\ Aggregate(mine.intent_layer) = Aggregate(theirs.intent_layer)
                     /\ mine.deltas = theirs.deltas

\* the (task, repetition) pairs of a comparison in which the work items of
\* both conditions ran, neither ended as an apparatus failure, the first
\* condition's trial has success a and the second's has success b
PairsByRepetition(cmp, a, b) ==
    {<<t, rep>> \in {rp.queue[n].task : n \in DOMAIN rp.queue}
                    \X {rp.queue[n].rep : n \in DOMAIN rp.queue} :
        \E i, j \in DOMAIN rp.results :
            /\ rp.results[i].task_id = t /\ rp.results[j].task_id = t
            /\ rp.results[i].rep = rep /\ rp.results[j].rep = rep
            /\ rp.results[i].condition = cmp[1]
            /\ rp.results[j].condition = cmp[2]
            /\ ~Apparatus(rp.results[i]) /\ ~Apparatus(rp.results[j])
            /\ rp.results[i].success = a /\ rp.results[j].success = b}

\* C23: McNemar pairing: the discordant pairs counted for a comparison are
\* the pairs of the two conditions' results for the same task and the same
\* repetition index of the work queue; pairs with an apparatus failure and
\* concordant pairs count nothing
C23_McNemarPairsByRepetition ==
    rp.called =>
        \A cmp \in Comparisons :
            /\ rp.out.summary.mcnemar[cmp].b =
                   Cardinality(PairsByRepetition(cmp, TRUE, FALSE))
            /\ rp.out.summary.mcnemar[cmp].c =
                   Cardinality(PairsByRepetition(cmp, FALSE, TRUE))

\* the positions of the runs of a (task, condition) pair in the result list
RunPositions(task_id, condition) ==
    {i \in DOMAIN rp.results :
        rp.results[i].task_id = task_id /\ rp.results[i].condition = condition}

\* the five efficiency metrics
EfficiencyMetrics ==
    {"wall_clock_seconds", "input_tokens", "output_tokens", "tool_calls",
     "lines_changed"}

\* a serialized run is the trial r: its success, its error when it has one,
\* and its five metrics, under fix_only when generation metrics come with it
IsRunVerbatim(block, r) ==
    /\ block.success = r.success
    /\ IF r.error = NoError THEN "error" \notin DOMAIN block
       ELSE "error" \in DOMAIN block /\ block.error = r.error
    /\ \A m \in EfficiencyMetrics :
           IF "fix_only" \in DOMAIN block THEN block.fix_only[m] = r[m]
           ELSE block[m] = r[m]

\* C30: the block of a (task, condition) pair: with one run it is that run
\* verbatim; with more it reports successes and total_valid_runs over the
\* runs that are not apparatus failures, success_rate = successes /
\* total_valid_runs (0 when there are none), success iff success_rate is at
\* least 0.5, the median of each of the five efficiency metrics over those
\* runs (whole numbers for the counts), and every run in the runs array
C30_ConditionBlockAggregatesValidRuns ==
    rp.called =>
        \A n \in DOMAIN rp.queue :
            LET pos == RunPositions(rp.queue[n].task, rp.queue[n].cond)
                runs == Pick(rp.results, pos)
                valid == {i \in pos : ~Apparatus(rp.results[i])}
                passed == {i \in valid : rp.results[i].success}
                block == TaskBlock(rp.out.results,
                                   rp.queue[n].task)[Value(rp.queue[n].cond)]
                Of(m) == Pick([i \in DOMAIN rp.results |-> rp.results[i][m]], valid)
            IN IF Cardinality(pos) = 1 THEN IsRunVerbatim(block, runs[1])
               ELSE /\ block.successes = Cardinality(passed)
                    /\ block.total_valid_runs = Cardinality(valid)
                    /\ IF valid = {} THEN block.success_rate = 0
                       ELSE IsRate(block.success_rate, Cardinality(passed),
                                   Cardinality(valid))
                    /\ block.success <=> block.success_rate >= 50
                    /\ valid # {} =>
                           /\ 10 * Median2(Of("wall_clock_seconds"))
                                  = 2 * block.median.wall_clock_seconds
                           /\ \A m \in EfficiencyMetrics \ {"wall_clock_seconds"} :
                                  /\ 2 * block.median[m] <= Median2(Of(m))
                                  /\ Median2(Of(m)) <= 2 * block.median[m] + 1
                    /\ Len(block.runs) = Cardinality(pos)
                    /\ \A k \in DOMAIN block.runs : IsRunVerbatim(block.runs[k], runs[k])

\* a pair with two runs, one a worker crash and one that passed, has been
\* serialized: one success of one valid run, both runs in the array
C30_Witness ==
    /\ rp.called
    /\ \E n \in DOMAIN rp.queue :
           LET pos == RunPositions(rp.queue[n].task, rp.queue[n].cond)
               block == TaskBlock(rp.out.results,
                                  rp.queue[n].task)[Value(rp.queue[n].cond)]
           IN /\ Cardinality(pos) = 2
              /\ \E i, j \in pos : Apparatus(rp.results[i]) /\ rp.results[j].success
              /\ block.successes = 1
              /\ block.total_valid_runs = 1
              /\ block.success
              /\ Len(block.runs) = 2

(***************************************************************************)
(* Claims about resume and merge                                           *)
(***************************************************************************)
\* the record of a task in the prior, the new and the merged results
PriorTask(t) == ByTask(rs.prior, t)

NewTask(t) == ByTask(rs.new_results, t)

MergedTask(t) == ByTask(rs.out.results, t)

\* the condition c of task t was re-run: the new results have a block for it
ReRun(t, c) == NewTask(t) # NoBlock /\ BlockOf(NewTask(t), c) # NoBlock

\* the pair had passed in the prior run: its block has success true and no
\* error field
HadPassed(t, c) ==
    /\ PriorTask(t) # NoBlock
    /\ BlockOf(PriorTask(t), c) # NoBlock
    /\ BlockOf(PriorTask(t), c).success
    /\ "error" \notin DOMAIN BlockOf(PriorTask(t), c)

\* the tasks of the prior results that the merged results keep
KeptPriorTasks ==
    {rs.prior[k].task_id : k \in DOMAIN rs.prior}
    \cap {rs.out.results[k].task_id : k \in DOMAIN rs.out.results}

C25_MixedTaskDeltasCleared ==
    rs.pc = "merged" =>
        \A t \in KeptPriorTasks :
            LET carried == {c \in Conditions : HadPassed(t, c) /\ ~ReRun(t, c)}
                fresh == {c \in Conditions : ReRun(t, c)}
                present == {c \in Conditions : BlockOf(MergedTask(t), c) # NoBlock}
            IN /\ (carried # {} /\ fresh # {}) =>
                      /\ DOMAIN MergedTask(t).deltas = {"note"}
                      /\ MergedTask(t).deltas # NewTask(t).deltas
               /\ (fresh # {} /\ present \subseteq fresh) =>
                      MergedTask(t).deltas = NewTask(t).deltas

\* a task with a carried-forward and a new condition has the note, and
\* another task of the same merge, fully re-run, has the new deltas
C25_Witness ==
    /\ rs.pc = "merged"
    /\ \E t, u \in KeptPriorTasks :
           /\ \E c, d \in Conditions :
                  HadPassed(t, c) /\ ~ReRun(t, c) /\ ReRun(t, d)
           /\ DOMAIN MergedTask(t).deltas = {"note"}
           /\ \A c \in Conditions :
                  BlockOf(MergedTask(u), c) # NoBlock => ReRun(u, c)
           /\ MergedTask(u).deltas = NewTask(u).deltas

\* the fields on which the recomputed summary is compared with a fresh one
SummaryCore(summary) ==
    [total_tasks |-> summary.total_tasks,
     infrastructure_errors |-> summary.infrastructure_errors,
     success_rate |-> summary.success_rate,
     itt_rate |-> summary.itt_rate,
     ci_90 |-> summary.ci_90,
     significant |-> summary.significant]

\* the trials behind the merged blocks: those of the new run, and those of
\* the prior run for the pairs of kept tasks that were not re-run
MergedTrials ==
    rs.results
    \o SelectSeq(rs.prior_trials,
                 LAMBDA r : /\ r.task_id \in KeptPriorTasks
                            /\ ~ReRun(r.task_id, r.condition))

PairsOf(q) == {<<q[k].task, q[k].cond>> : k \in DOMAIN q}

\* the pairs of the prior results whose block has success true and no error
PassedInPrior ==
    {pair \in {rs.prior[k].task_id : k \in DOMAIN rs.prior} \X Conditions :
         HadPassed(pair[1], pair[2])}

\* C27: on resume a (task, condition) pair counts as passed, and every
\* repetition of it leaves the work queue, if and only if its prior block
\* has success true (the majority flag of a block of several runs) and no
\* error field; every other queued pair is re-run with all its repetitions
C27_PassedPairsLeaveQueue ==
    rs.pc # "start" =>
        /\ rs.passed_pairs = PassedInPrior
        /\ \A k \in DOMAIN rs.queue :
               (\E j \in DOMAIN rs.work_queue : rs.work_queue[j] = rs.queue[k])
                   <=> ~HadPassed(rs.queue[k].task, rs.queue[k].cond)
        /\ \A j, k \in DOMAIN rs.work_queue :
               j < k => \E a, b \in DOMAIN rs.queue :
                            /\ a < b
                            /\ rs.queue[a] = rs.work_queue[j]
                            /\ rs.queue[b] = rs.work_queue[k]
        /\ rs.pc = "merged" =>
               /\ Len(rs.results) = Len(rs.work_queue)
               /\ \A k \in DOMAIN rs.results :
                      /\ rs.results[k].task_id = rs.work_queue[k].task
                      /\ rs.results[k].condition = rs.work_queue[k].cond

\* a pair that had passed leaves the queue with both repetitions, and a
\* pair that had failed is re-run with both repetitions
C27_Witness ==
    /\ rs.pc = "merged"
    /\ \E p \in rs.passed_pairs :
           /\ Cardinality({k \in DOMAIN rs.queue :
                              <<rs.queue[k].task, rs.queue[k].cond>> = p}) = 2
           /\ p \notin PairsOf(rs.work_queue)
    /\ \E p \in PairsOf(rs.queue) :
           /\ PriorTask(p[1]) # NoBlock
           /\ BlockOf(PriorTask(p[1]), p[2]) # NoBlock
           /\ ~BlockOf(PriorTask(p[1]), p[2]).success
           /\ Cardinality({k \in DOMAIN rs.results :
                              /\ rs.results[k].task_id = p[1]
                              /\ rs.results[k].condition = p[2]}) = 2

\* the task ids of a list of task records, in order
TaskIds(task_results) == [k \in DOMAIN task_results |-> task_results[k].task_id]

\* the task of the prior results has a passed pair
HasPassedPair(t) == \E c \in Conditions : HadPassed(t, c)

\* C28: a prior task that has no passed pair and is not in the new results
\* is omitted from the merged result set; the tasks keep the prior run's
\* order, and the tasks present only in the new results come after them
C28_MergedTaskOrder ==
    rs.pc = "merged" =>
        TaskIds(rs.out.results) =
            SelectSeq(TaskIds(rs.prior),
                      LAMBDA t : HasPassedPair(t) \/ NewTask(t) # NoBlock)
            \o SelectSeq(TaskIds(rs.new_results),
                         LAMBDA t : PriorTask(t) = NoBlock)

\* a merge that omits a prior task and appends a task of the new run after
\* a kept prior task
C28_Witness ==
    /\ rs.pc = "merged"
    /\ \E k \in DOMAIN rs.prior :
           /\ ~HasPassedPair(rs.prior[k].task_id)
           /\ NewTask(rs.prior[k].task_id) = NoBlock
           /\ MergedTask(rs.prior[k].task_id) = NoBlock
    /\ Len(rs.out.results) = 2
    /\ rs.out.results[1].task_id \in KeptPriorTasks
    /\ PriorTask(rs.out.results[2].task_id) = NoBlock

\* the prefix of the error of a single-run condition block
ErrorTag(cond_data) == cond_data.error[1]

\* C29: _is_infra_error_dict returns true for a condition block whose error
\* begins with [infrastructure], [pre-validation], [skill-generation],
\* [empty-run] or [timeout], and false for a block with no error field or
\* with an untagged error
C29_ResumeClassifierTags ==
    rs.pc = "merged" =>
        \A k \in DOMAIN rs.out.results, c \in Conditions :
            LET cond_data == BlockOf(rs.out.results[k], c)
            IN (cond_data # NoBlock /\ "runs" \notin DOMAIN cond_data) =>
                   /\ "error" \notin DOMAIN cond_data => ~IsInfraErrorDict(cond_data)
                   /\ ("error" \in DOMAIN cond_data
                       /\ ErrorTag(cond_data) \in
                              {"[infrastructure]", "[pre-validation]",
                               "[skill-generation]", "[empty-run]", "[timeout]"})
                          => IsInfraErrorDict(cond_data)

(***************************************************************************)
(* Claims about the caches and the measurements                            *)
(***************************************************************************)
\* the keys of self._results and of self._errors
ResultKeys == {k \in Keys : pvc_results[k] # Absent}

ErrorKeys == {k \in Keys : pvc_errors[k] # NoExc}

\* a recorded result or error stays as it is in the next state
OutcomesKept ==
    /\ \A k \in ResultKeys : pvc_results'[k] = pvc_results[k]
    /\ \A k \in ErrorKeys : pvc_errors'[k] = pvc_errors[k]

\* C39: in every reachable state of a PreValidationCache no key is in both
\* the results map and the errors map, every key in either map has an
\* in-progress event, and a recorded result or error is never changed or
\* removed
C39_OutcomeMapsDisjointAndStable ==
    /\ [](/\ ResultKeys \cap ErrorKeys = {}
          /\ ResultKeys \cup ErrorKeys \subseteq pvc_in_progress)
    /\ [][OutcomesKept]_vars

\* one key has a recorded result, the other a recorded error, and a later
\* caller of each has been served from the maps
C39_Witness ==
    /\ ResultKeys # {}
    /\ ErrorKeys # {}
    /\ \E c \in Callers :
           goc[c].pc = "done" /\ goc[c].path = "cached" /\ goc[c].key \in ResultKeys

\* C32: for all n >= 0 and 0 <= successes <= n, wilson_score_interval
\* returns lower, upper and center with 0 <= lower <= center <= upper <= 1,
\* and for n = 0 it returns lower 0, upper 1, center 0
C32_WilsonIntervalOrdered ==
    stc.fn = "wilson_score_interval" =>
        /\ 0 <= stc.out.lower
        /\ stc.out.lower <= stc.out.center
        /\ stc.out.center <= stc.out.upper
        /\ stc.out.upper <= One
        /\ stc.args[2] = 0 =>
               stc.out.lower = 0 /\ stc.out.upper = One /\ stc.out.center = 0

\* the interval of no successes in a single trial: the lower end is 0 and
\* the centre lies strictly inside
C32_Witness ==
    /\ stc.fn = "wilson_score_interval"
    /\ stc.args = <<0, 1>>
    /\ stc.out.lower = 0
    /\ 0 < stc.out.center
    /\ stc.out.center < stc.out.upper
    /\ stc.out.upper < One

\* the two intervals have a point in common
SharePoint(a, b) ==
    \E x \in EndPoints :
        a.lower <= x /\ x <= a.upper /\ b.lower <= x /\ x <= b.upper

\* C33: ci_overlap is reflexive for intervals with lower <= upper and
\* symmetric; intervals that share exactly one end point overlap, and
\* disjoint intervals do not
C33_OverlapReflexiveSymmetric ==
    stc.fn = "ci_overlap" =>
        LET a == stc.args[1]
            b == stc.args[2]
        IN /\ a = b => stc.out = TRUE
           /\ stc.out = CiOverlap(b, a)
           /\ a.upper = b.lower => stc.out = TRUE
           /\ stc.out = SharePoint(a, b)

\* two intervals that share exactly one end point, reported as overlapping
C33_Witness ==
    /\ stc.fn = "ci_overlap"
    /\ stc.args[1].lower < stc.args[1].upper
    /\ stc.args[1].upper = stc.args[2].lower
    /\ stc.args[2].lower < stc.args[2].upper
    /\ stc.out = TRUE

\* the outcomes of n tosses of a fair coin, as the set of tosses that came
\* up heads, that are at least as far from n / 2 as b heads of b + c
AsExtreme(b, c) ==
    {heads \in SUBSET (1..(b + c)) :
         \/ Cardinality(heads) <= Min(b, c)
         \/ Cardinality(heads) >= b + c - Min(b, c)}

\* C34: mcnemar_test(b, c) returns n_discordant = b + c, a_wins = b,
\* b_wins = c and the two-sided exact binomial probability over the b + c
\* discordant pairs, capped at 1: 1.0 when b + c = 0, when b = c and for a
\* single discordant pair, and less than 0.01 for (0, 10)
C34_McnemarExactBinomial ==
    stc.fn = "mcnemar_test" =>
        LET b == stc.args[1]
            c == stc.args[2]
            p == stc.out.p_value
        IN /\ stc.out.n_discordant = b + c
           /\ stc.out.a_wins = b
           /\ stc.out.b_wins = c
           /\ p.num * Cardinality(SUBSET (1..(b + c)))
                  = p.den * Cardinality(AsExtreme(b, c))
           /\ p.num <= p.den
           /\ (b + c = 0 \/ b = c \/ b + c = 1) => p.num = p.den
           /\ (b = 0 /\ c = 10) => 100 * p.num < p.den

\* ten discordant pairs that all go one way: p = 2 / 1024
C34_Witness ==
    /\ stc.fn = "mcnemar_test"
    /\ stc.args = <<0, 10>>
    /\ stc.out.n_discordant = 10
    /\ stc.out.b_wins = 10
    /\ stc.out.p_value = [num |-> 2, den |-> 1024]

\* C38: cache keys do not alias: a lookup for (repository, commit,
\* condition) returns only an entry that was saved for the same repository
\* URL and the same condition and, for a commit-level entry, the same
\* commit; entries of different repositories, commits or conditions are
\* stored and returned independently
C38_CacheKeysDoNotAlias ==
    /\ (ky.call.called /\ ky.call.found) =>
           /\ ky.call.entry.repo = ky.call.repo
           /\ ky.call.entry.condition = ky.call.condition
           /\ ~ky.call.entry.repo_level => ky.call.entry.commit = ky.call.commit
    /\ \A args \in ky.saved :
           ky.entries[SaveKey(args.repo, args.commit, args.condition,
                              args.repo_level)] = args

\* no thread is inside save or inside a write of the manifest
NoSaveRunning == \A t \in Threads : th[t].pc \in {"new", "ready", "saved", "failed"}

\* the manifest file can be read by json.load
ManifestReadable ==
    fs_names["manifest"] # NoFile => fs_inodes[fs_names["manifest"]].state = "full"

\* the keys of an IndexCache constructed in this state: those of the
\* manifest file and those the repair adds for the entry directories
KeysAfterConstruction ==
    (IF fs_names["manifest"] = NoFile THEN {}
     ELSE fs_inodes[fs_names["manifest"]].data) \cup fs_dirs

\* C37: no saved entry is lost: under any interleaving of saves by
\* concurrently running warm-ups and trials, each with its own in-memory
\* manifest, every save that copied a file remains discoverable: an
\* IndexCache constructed after those saves finished has an entry for each
\* of their keys
C37_NoSavedEntryLost ==
    (NoSaveRunning /\ \E t \in Threads : th[t].pc = "saved") =>
        /\ ManifestReadable
        /\ fs_dirs \subseteq KeysAfterConstruction

\* the runner got a cache hit that restored no context file
EmptyHit(r) ==
    /\ rn[r].metrics.set
    /\ rn[r].metrics.cache_hit
    /\ rn[r].metrics.files_created = {}

\* C35: the Artifact Cache never records an entry with an empty file list:
\* a lookup hit always restores at least one context file, so after a
\* generation that produced zero files a later trial of the same repository
\* and condition does not get a cache hit but generates again
C35_NoEmptyCacheEntry ==
    /\ \A key \in DOMAIN ic_entries : ic_entries[key].agents_files # {}
    /\ \A r \in Runners : ~EmptyHit(r)

\* the runner is a trial that invoked the context-generation agent with the
\* cache enabled (the driver starts one warm-up per repository and
\* condition, and any number of trials)
Generated(r) == rn[r].kind = "run" /\ rn[r].cache /\ rn[r].gen # "none"

\* the Artifact Cache key of the runner's job
JobKey(r) == SaveKey(RunRepo, JobCommit(r), rn[r].cond, JobRepoLevel(r))

\* C36: within one run with caching enabled the context-generation agent
\* is invoked at most once per Artifact Cache key: concurrent or later
\* trials that need the context of the same repository, commit-or-latest
\* and condition reuse that one generation
C36_OneGenerationPerKey ==
    \A r1, r2 \in Runners :
        (r1 # r2 /\ Generated(r1) /\ Generated(r2)) => JobKey(r1) # JobKey(r2)

\* the trial ended in the [pre-validation] failure of TaskRunner.run
FailedPreValidation(trial) ==
    trial.error # NoError /\ trial.error[1] = "[pre-validation]"

\* C40: every task id in the set _load_pre_validated_tasks returns for the
\* prior report has a prior trial that got past pre-validation; a task whose
\* prior trials all failed in pre-validation is not in the set
C40_PreValidatedTasksGotPast ==
    rs.pc # "start" =>
        \A t \in rs.pre_validated_tasks :
            \E n \in DOMAIN rs.prior_trials :
                /\ rs.prior_trials[n].task_id = t
                /\ ~FailedPreValidation(rs.prior_trials[n])

\* the paths whose content at the end of the trial is not that of the
\* baseline snapshot
ChangedSinceSnapshot == {p \in GdPaths : gd.tree[p] # gd.snapshot[p]}

\* C31: the files-touched and lines-changed figures of a completed trial
\* count only changes made after the baseline snapshot, and no
\* machine-context file
C31_DiffCountsOnlyAgentEdits ==
    gd.pc = "done" =>
        /\ gd.out.files \subseteq ChangedSinceSnapshot
        /\ \A f \in gd.out.files : ~IsContextFile(f)
        /\ gd.out.lines_changed <=
               SumNumStat({p \in ChangedSinceSnapshot : ~IsContextFile(p)},
                          gd.snapshot, gd.tree)

====
